---- MODULE Spec2Model ----
(***************************************************************************)
(* ChemStorM (ppchem_chemsort): the storage sorter of chemsort_final.py.   *)
(* The model covers prioritize_pictograms, is_chemically_compatible,       *)
(* initialize_storage_groups and chemsort_multiple_order_3, with Python    *)
(* strings kept as character sequences so that `in`, lower() and           *)
(* startswith() are computed, not assumed.                                 *)
(***************************************************************************)
EXTENDS Integers, Sequences, FiniteSets, Bags, TLC

(***************************************************************************)
(* Bounds of the model.                                                    *)
(***************************************************************************)
\* compounds handed to chemsort_multiple_order_3 over all its calls
MaxCompounds == 3
\* calls of chemsort_multiple_order_3 on one registry
MaxCalls == 2
\* length of a pictogram list given to prioritize_pictograms
MaxPictograms == 3
\* length of a pictogram list given to is_chemically_compatible on its own
MaxRulePictograms == 2
\* operations (form submits and button clicks) in one session of an app
MaxOps == 4
\* occupants of a bucket given to is_compatible_with_group on its own
MaxOccupants == 2

(***************************************************************************)
(* Python str values.  Text maps every string the model uses to its        *)
(* characters.                                                             *)
(***************************************************************************)
Text ==
    "" :> <<>> @@
    "acid" :> <<"a", "c", "i", "d">> @@
    "base" :> <<"b", "a", "s", "e">> @@
    "basic" :> <<"b", "a", "s", "i", "c">> @@
    "neutral" :> <<"n", "e", "u", "t", "r", "a", "l">> @@
    "unknown" :> <<"u", "n", "k", "n", "o", "w", "n">> @@
    "Invalid SMILES" :> <<"I", "n", "v", "a", "l", "i", "d", " ", "S", "M", "I", "L", "E", "S">> @@
    "solid" :> <<"s", "o", "l", "i", "d">> @@
    "liquid" :> <<"l", "i", "q", "u", "i", "d">> @@
    "gas" :> <<"g", "a", "s">> @@
    "nitric acid" :> <<"n", "i", "t", "r", "i", "c", " ", "a", "c", "i", "d">> @@
    "Nitric Acid" :> <<"N", "i", "t", "r", "i", "c", " ", "A", "c", "i", "d">> @@
    "NITRIC ACID" :> <<"N", "I", "T", "R", "I", "C", " ", "A", "C", "I", "D">> @@
    "corrosive" :> <<"c", "o", "r", "r", "o", "s", "i", "v", "e">> @@
    "irritant" :> <<"i", "r", "r", "i", "t", "a", "n", "t">> @@
    "toxicity" :> <<"t", "o", "x", "i", "c", "i", "t", "y">> @@
    "custom_storage_" :> <<"c", "u", "s", "t", "o", "m", "_", "s", "t", "o", "r", "a", "g", "e", "_">> @@
    "catches fire spontaneously" :> <<"c", "a", "t", "c", "h", "e", "s", " ", "f", "i", "r", "e", " ", "s", "p", "o", "n", "t", "a", "n", "e", "o", "u", "s", "l", "y">> @@
    "in contact with water emits" :> <<"i", "n", " ", "c", "o", "n", "t", "a", "c", "t", " ", "w", "i", "t", "h", " ", "w", "a", "t", "e", "r", " ", "e", "m", "i", "t", "s">> @@
    "may react explosively" :> <<"m", "a", "y", " ", "r", "e", "a", "c", "t", " ", "e", "x", "p", "l", "o", "s", "i", "v", "e", "l", "y">> @@
    "may cause genetic defects" :> <<"m", "a", "y", " ", "c", "a", "u", "s", "e", " ", "g", "e", "n", "e", "t", "i", "c", " ", "d", "e", "f", "e", "c", "t", "s">> @@
    "cancer" :> <<"c", "a", "n", "c", "e", "r">> @@
    "may damage fertility" :> <<"m", "a", "y", " ", "d", "a", "m", "a", "g", "e", " ", "f", "e", "r", "t", "i", "l", "i", "t", "y">> @@
    "causes damage to organs" :> <<"c", "a", "u", "s", "e", "s", " ", "d", "a", "m", "a", "g", "e", " ", "t", "o", " ", "o", "r", "g", "a", "n", "s">> @@
    "causes severe skin burns and eye damage" :> <<"c", "a", "u", "s", "e", "s", " ", "s", "e", "v", "e", "r", "e", " ", "s", "k", "i", "n", " ", "b", "u", "r", "n", "s", " ", "a", "n", "d", " ", "e", "y", "e", " ", "d", "a", "m", "a", "g", "e">> @@
    "fatal" :> <<"f", "a", "t", "a", "l">> @@
    "toxic" :> <<"t", "o", "x", "i", "c">> @@
    "toxic to aquatic life" :> <<"t", "o", "x", "i", "c", " ", "t", "o", " ", "a", "q", "u", "a", "t", "i", "c", " ", "l", "i", "f", "e">> @@
    "none" :> <<"n", "o", "n", "e">> @@
    "hazardous_environment" :> <<"h", "a", "z", "a", "r", "d", "o", "u", "s", "_", "e", "n", "v", "i", "r", "o", "n", "m", "e", "n", "t">> @@
    "acute_toxicity" :> <<"a", "c", "u", "t", "e", "_", "t", "o", "x", "i", "c", "i", "t", "y">> @@
    "cmr_stot" :> <<"c", "m", "r", "_", "s", "t", "o", "t">> @@
    "toxicity_2_3" :> <<"t", "o", "x", "i", "c", "i", "t", "y", "_", "2", "_", "3">> @@
    "acid_corrosive_1" :> <<"a", "c", "i", "d", "_", "c", "o", "r", "r", "o", "s", "i", "v", "e", "_", "1">> @@
    "acid_irritant" :> <<"a", "c", "i", "d", "_", "i", "r", "r", "i", "t", "a", "n", "t">> @@
    "base_corrosive_1" :> <<"b", "a", "s", "e", "_", "c", "o", "r", "r", "o", "s", "i", "v", "e", "_", "1">> @@
    "base_irritant" :> <<"b", "a", "s", "e", "_", "i", "r", "r", "i", "t", "a", "n", "t">> @@
    "pyrophoric" :> <<"p", "y", "r", "o", "p", "h", "o", "r", "i", "c">> @@
    "flammable" :> <<"f", "l", "a", "m", "m", "a", "b", "l", "e">> @@
    "oxidizer" :> <<"o", "x", "i", "d", "i", "z", "e", "r">> @@
    "OXIDIZER" :> <<"O", "X", "I", "D", "I", "Z", "E", "R">> @@
    "explosive" :> <<"e", "x", "p", "l", "o", "s", "i", "v", "e">> @@
    "compressed_gas" :> <<"c", "o", "m", "p", "r", "e", "s", "s", "e", "d", "_", "g", "a", "s">> @@
    "nitric_acid" :> <<"n", "i", "t", "r", "i", "c", "_", "a", "c", "i", "d">> @@
    "Causes severe skin burns and eye damage" :> <<"C", "a", "u", "s", "e", "s", " ", "s", "e", "v", "e", "r", "e", " ", "s", "k", "i", "n", " ", "b", "u", "r", "n", "s", " ", "a", "n", "d", " ", "e", "y", "e", " ", "d", "a", "m", "a", "g", "e">> @@
    "Catches fire spontaneously" :> <<"C", "a", "t", "c", "h", "e", "s", " ", "f", "i", "r", "e", " ", "s", "p", "o", "n", "t", "a", "n", "e", "o", "u", "s", "l", "y">> @@
    "Fatal if swallowed" :> <<"F", "a", "t", "a", "l", " ", "i", "f", " ", "s", "w", "a", "l", "l", "o", "w", "e", "d">> @@
    "May cause cancer" :> <<"M", "a", "y", " ", "c", "a", "u", "s", "e", " ", "c", "a", "n", "c", "e", "r">> @@
    "Toxic to aquatic life" :> <<"T", "o", "x", "i", "c", " ", "t", "o", " ", "a", "q", "u", "a", "t", "i", "c", " ", "l", "i", "f", "e">> @@
    "May intensify fire" :> <<"M", "a", "y", " ", "i", "n", "t", "e", "n", "s", "i", "f", "y", " ", "f", "i", "r", "e">> @@
    "Triflic Acid" :> <<"T", "r", "i", "f", "l", "i", "c", " ", "A", "c", "i", "d">> @@
    "Ammonium Hydroxide" :> <<"A", "m", "m", "o", "n", "i", "u", "m", " ", "H", "y", "d", "r", "o", "x", "i", "d", "e">> @@
    "Hydrogen Peroxide" :> <<"H", "y", "d", "r", "o", "g", "e", "n", " ", "P", "e", "r", "o", "x", "i", "d", "e">> @@
    "Potassium Permanganate" :> <<"P", "o", "t", "a", "s", "s", "i", "u", "m", " ", "P", "e", "r", "m", "a", "n", "g", "a", "n", "a", "t", "e">> @@
    "Magnesium" :> <<"M", "a", "g", "n", "e", "s", "i", "u", "m">> @@
    "Toluene" :> <<"T", "o", "l", "u", "e", "n", "e">> @@
    "Ozone" :> <<"O", "z", "o", "n", "e">> @@
    "Acetic Acid" :> <<"A", "c", "e", "t", "i", "c", " ", "A", "c", "i", "d">> @@
    "Calcium Oxide" :> <<"C", "a", "l", "c", "i", "u", "m", " ", "O", "x", "i", "d", "e">> @@
    "Picric Acid" :> <<"P", "i", "c", "r", "i", "c", " ", "A", "c", "i", "d">> @@
    "Ammonium Nitrate" :> <<"A", "m", "m", "o", "n", "i", "u", "m", " ", "N", "i", "t", "r", "a", "t", "e">> @@
    "Sodium Bicarbonate" :> <<"S", "o", "d", "i", "u", "m", " ", "B", "i", "c", "a", "r", "b", "o", "n", "a", "t", "e">> @@
    "Phenol" :> <<"P", "h", "e", "n", "o", "l">> @@
    "Limonene" :> <<"L", "i", "m", "o", "n", "e", "n", "e">> @@
    "Nitrogen" :> <<"N", "i", "t", "r", "o", "g", "e", "n">> @@
    "White Phosphorus" :> <<"W", "h", "i", "t", "e", " ", "P", "h", "o", "s", "p", "h", "o", "r", "u", "s">> @@
    "Benzene" :> <<"B", "e", "n", "z", "e", "n", "e">> @@
    "Could not find safety data" :> <<"C", "o", "u", "l", "d", " ", "n", "o", "t", " ", "f", "i", "n", "d", " ", "s", "a", "f", "e", "t", "y", " ", "d", "a", "t", "a">> @@
    "Error processing" :> <<"E", "r", "r", "o", "r", " ", "p", "r", "o", "c", "e", "s", "s", "i", "n", "g">> @@
    "Lactic Acid" :> <<"L", "a", "c", "t", "i", "c", " ", "A", "c", "i", "d">> @@
    "Sodium Hypochlorite" :> <<"S", "o", "d", "i", "u", "m", " ", "H", "y", "p", "o", "c", "h", "l", "o", "r", "i", "t", "e">> @@
    "Carbon Dioxide" :> <<"C", "a", "r", "b", "o", "n", " ", "D", "i", "o", "x", "i", "d", "e">> @@
    "Hydrogen Chloride" :> <<"H", "y", "d", "r", "o", "g", "e", "n", " ", "C", "h", "l", "o", "r", "i", "d", "e">> @@
    "Biohazard" :> <<"B", "i", "o", "h", "a", "z", "a", "r", "d">>

\* str.lower() on one character
LowerChar(ch) ==
    LET upper == <<"A","B","C","D","E","F","G","H","I","J","K","L","M",
                   "N","O","P","Q","R","S","T","U","V","W","X","Y","Z">>
        lower == <<"a","b","c","d","e","f","g","h","i","j","k","l","m",
                   "n","o","p","q","r","s","t","u","v","w","x","y","z">>
    IN  IF \E k \in 1..26 : upper[k] = ch
        THEN lower[CHOOSE k \in 1..26 : upper[k] = ch]
        ELSE ch

\* str.lower() on a character sequence
Lower(chars) == [k \in 1..Len(chars) |-> LowerChar(chars[k])]

\* Python `needle in hay` for two str values (substring search)
IsSubstring(needle, hay) ==
    \E k \in 0..(Len(hay) - Len(needle)) :
        SubSeq(hay, k + 1, k + Len(needle)) = needle

\* str.startswith
StartsWith(chars, prefix) ==
    /\ Len(prefix) <= Len(chars)
    /\ SubSeq(chars, 1, Len(prefix)) = prefix

\* decimal digits of a positive integer, as f"{n}" writes them
RECURSIVE Digits(_)
Digits(n) ==
    LET digit == <<"0","1","2","3","4","5","6","7","8","9">>
    IN  IF n < 10 THEN <<digit[n + 1]>>
        ELSE Digits(n \div 10) \o <<digit[(n % 10) + 1]>>

custom_group_prefix == "custom_storage_"

\* f"{custom_group_prefix}{custom_group_counter}"
CustomName(n) == custom_group_prefix \o ToString(n)

\* the characters of a str: a literal of Text, or a formatted overflow name
Chars(s) ==
    IF s \in DOMAIN Text THEN Text[s]
    ELSE LET n == CHOOSE n \in 1..(MaxCompounds + 2) : s = CustomName(n)
         IN  Text[custom_group_prefix] \o Digits(n)

\* " ".join(strings)
RECURSIVE Join(_)
Join(strings) ==
    IF strings = <<>> THEN <<>>
    ELSE IF Len(strings) = 1 THEN Chars(strings[1])
    ELSE Chars(strings[1]) \o <<" ">> \o Join(Tail(strings))

(***************************************************************************)
(* The acid/base class of a record is a str ("unknown", "acid", ...) or,   *)
(* as classify_acid_base returns it, a tuple of tags.                      *)
(***************************************************************************)
PyStr(s) == [tuple |-> FALSE, str |-> s, items |-> <<>>]
PyTuple(tags) == [tuple |-> TRUE, str |-> "", items |-> tags]

\* Python `word in value`: substring of a str, element of a tuple
In(word, value) ==
    IF value.tuple
    THEN \E k \in 1..Len(value.items) : value.items[k] = word
    ELSE IsSubstring(Chars(word), Chars(value.str))

\* Python `x in list`
InList(x, list) == \E k \in 1..Len(list) : list[k] = x

(***************************************************************************)
(* prioritize_pictograms                                                   *)
(***************************************************************************)
Pictograms ==
    {"Explosive", "Compressed Gas", "Oxidizer", "Flammable", "Corrosive",
     "Health Hazard", "Acute Toxic", "Irritant", "Environmental Hazard"}

pictogram_priority ==
    [p \in Pictograms |->
        CASE p \in {"Explosive", "Compressed Gas"} -> 1
          [] p = "Oxidizer" -> 2
          [] p = "Flammable" -> 3
          [] p = "Corrosive" -> 4
          [] p \in {"Health Hazard", "Acute Toxic"} -> 5
          [] p \in {"Irritant", "Environmental Hazard"} -> 6]

\* pictogram_priority.get(x, default)
PriorityGet(x, default) ==
    IF x \in DOMAIN pictogram_priority THEN pictogram_priority[x] ELSE default

\* Mutant: x goes before the elements of equal key, so the sort is not stable.
RECURSIVE InsertByKey_unstable(_, _, _)
InsertByKey_unstable(x, seq, key) ==
    IF seq = <<>> THEN <<x>>
    ELSE IF key[x] <= key[Head(seq)] THEN <<x>> \o seq
    ELSE <<Head(seq)>> \o InsertByKey_unstable(x, Tail(seq), key)

\* one step of a stable sort: x goes after every element whose key is <= its key
RECURSIVE InsertByKey(_, _, _)
InsertByKey(x, seq, key) ==
    IF seq = <<>> THEN <<x>>
    ELSE IF key[x] < key[Head(seq)] THEN <<x>> \o seq
    ELSE <<Head(seq)>> \o InsertByKey(x, Tail(seq), key)

\* sorted(seq, key=...): Python's sort is stable
RECURSIVE SortedByKey(_, _)
SortedByKey(seq, key) ==
    IF seq = <<>> THEN <<>>
    ELSE InsertByKey(seq[Len(seq)], SortedByKey(SubSeq(seq, 1, Len(seq) - 1), key), key)

Range(seq) == {seq[k] : k \in 1..Len(seq)}

UnknownPictogramRank == 99

prioritize_pictograms(pictogram_list) ==
    SortedByKey(pictogram_list,
                [x \in Range(pictogram_list) |-> PriorityGet(x, UnknownPictogramRank)])

(***************************************************************************)
(* is_chemically_compatible                                                *)
(***************************************************************************)
incompatible_pairs ==
    {<<"Flammable", "Oxidizer">>, <<"Flammable", "Corrosive">>, <<"Corrosive", "Oxidizer">>}

\* Mutant: the tag "basic" counts as a base tag.
Rule1_basic_is_base(existing_acid_base_class, new_acid_base_class) ==
    ~ \/ /\ In("acid", existing_acid_base_class)
          /\ (In("base", new_acid_base_class) \/ In("basic", new_acid_base_class))
      \/ /\ (In("base", existing_acid_base_class) \/ In("basic", existing_acid_base_class))
          /\ In("acid", new_acid_base_class)

\* Rule 1: acid/base incompatibility
Rule1(existing_acid_base_class, new_acid_base_class) ==
    ~ \/ In("acid", existing_acid_base_class) /\ In("base", new_acid_base_class)
      \/ In("base", existing_acid_base_class) /\ In("acid", new_acid_base_class)

\* Mutant: a pair is looked up only as (existing, new), not in either order.
Rule2_one_order(existing_pictograms, new_pictograms) ==
    \A i \in 1..Len(existing_pictograms) : \A j \in 1..Len(new_pictograms) :
        <<existing_pictograms[i], new_pictograms[j]>> \notin incompatible_pairs

\* Rule 2: incompatible pictograms
Rule2(existing_pictograms, new_pictograms) ==
    \A i \in 1..Len(existing_pictograms) : \A j \in 1..Len(new_pictograms) :
        LET pic1 == existing_pictograms[i]
            pic2 == new_pictograms[j]
        IN  ~ (<<pic1, pic2>> \in incompatible_pairs \/ <<pic2, pic1>> \in incompatible_pairs)

\* Mutant: only an acid Corrosive occupant is tested against the new compound.
Rule3_existing_side(existing_pictograms, new_pictograms, existing_acid_base_class, new_acid_base_class) ==
    ~ ( /\ In("acid", existing_acid_base_class)
        /\ InList("Corrosive", existing_pictograms)
        /\ (InList("Acute Toxic", new_pictograms) \/ InList("Health Hazard", new_pictograms)) )

\* Rule 3: acid + Corrosive against Acute Toxic or Health Hazard
Rule3(existing_pictograms, new_pictograms, existing_acid_base_class, new_acid_base_class) ==
    /\ ~ ( /\ In("acid", existing_acid_base_class)
           /\ InList("Corrosive", existing_pictograms)
           /\ (InList("Acute Toxic", new_pictograms) \/ InList("Health Hazard", new_pictograms)) )
    /\ ~ ( /\ In("acid", new_acid_base_class)
           /\ InList("Corrosive", new_pictograms)
           /\ (InList("Acute Toxic", existing_pictograms)
               \/ InList("Health Hazard", existing_pictograms)) )

\* Mutant: the state rule asks for equal states, so the empty placeholder clashes.
Rule4_equal_states(existing_state, new_state) == existing_state = new_state

\* Rule 4: solids and liquids not together
Rule4(existing_state, new_state) ==
    ~ \/ existing_state = "solid" /\ new_state = "liquid"
      \/ existing_state = "liquid" /\ new_state = "solid"

\* Mutant: the oxidizer group rejects Oxidizer candidates instead of Flammable ones.
Rule5_oxidizer_rejects_oxidizer(new_pictograms, new_acid_base_class, group_name) ==
    IF group_name = "" THEN TRUE
    ELSE
      LET name == Lower(Chars(group_name))
      IN  /\ name = Chars("oxidizer")
             => ~ (InList("Oxidizer", new_pictograms) \/ InList("Corrosive", new_pictograms))
          /\ (name = Chars("flammable") \/ name = Chars("pyrophoric"))
             => ~ (InList("Oxidizer", new_pictograms) \/ InList("Corrosive", new_pictograms))
          /\ (IsSubstring(Chars("corrosive"), name) \/ IsSubstring(Chars("irritant"), name))
             => ~ (InList("Oxidizer", new_pictograms) \/ InList("Flammable", new_pictograms))
          /\ (IsSubstring(Chars("toxicity"), name) \/ name = Chars("cmr_stot"))
             => ~ In("acid", new_acid_base_class)
          /\ IsSubstring(Chars("acid"), name)
             => ~ (InList("Health Hazard", new_pictograms)
                   \/ InList("Acute Toxic", new_pictograms))

\* Rule 5: group-based restrictions
Rule5(new_pictograms, new_acid_base_class, group_name) ==
    IF group_name = "" THEN TRUE
    ELSE
      LET name == Lower(Chars(group_name))
      IN  /\ name = Chars("oxidizer")
             => ~ (InList("Flammable", new_pictograms) \/ InList("Corrosive", new_pictograms))
          /\ (name = Chars("flammable") \/ name = Chars("pyrophoric"))
             => ~ (InList("Oxidizer", new_pictograms) \/ InList("Corrosive", new_pictograms))
          /\ (IsSubstring(Chars("corrosive"), name) \/ IsSubstring(Chars("irritant"), name))
             => ~ (InList("Oxidizer", new_pictograms) \/ InList("Flammable", new_pictograms))
          /\ (IsSubstring(Chars("toxicity"), name) \/ name = Chars("cmr_stot"))
             => ~ In("acid", new_acid_base_class)
          /\ IsSubstring(Chars("acid"), name)
             => ~ (InList("Health Hazard", new_pictograms)
                   \/ InList("Acute Toxic", new_pictograms))

is_chemically_compatible(existing_pictograms, new_pictograms, existing_acid_base_class, new_acid_base_class, existing_state, new_state, group_name) ==
    /\ Rule1(existing_acid_base_class, new_acid_base_class)
    /\ Rule2(existing_pictograms, new_pictograms)
    /\ Rule3(existing_pictograms, new_pictograms,
             existing_acid_base_class, new_acid_base_class)
    /\ Rule4(existing_state, new_state)
    /\ Rule5(new_pictograms, new_acid_base_class, group_name)

(***************************************************************************)
(* The storage registry: a dict (insertion-ordered) from group name to a   *)
(* dict from state key to the list of compounds stored there.              *)
(***************************************************************************)
default_group == [k \in {"solid", "liquid"} |-> <<>>]

default_group_gas == [k \in {"gas"} |-> <<>>]

FixedGroups ==
    <<"none", "hazardous_environment", "acute_toxicity", "cmr_stot", "toxicity_2_3",
      "acid_corrosive_1", "acid_irritant", "base_corrosive_1", "base_irritant",
      "pyrophoric", "flammable", "oxidizer", "explosive", "compressed_gas", "nitric_acid">>

initialize_storage_groups ==
    [keys |-> FixedGroups,
     val  |-> [g \in Range(FixedGroups) |->
                 IF g = "compressed_gas" THEN default_group_gas ELSE default_group]]

\* storage_groups[group][state_key] exists (otherwise Python raises KeyError)
HasBucket(group_dict, group_name, state_key) ==
    /\ group_name \in DOMAIN group_dict.val
    /\ state_key \in DOMAIN group_dict.val[group_name]

\* Mutant: the compound is inserted at the front of the bucket.
Append2_front(group_dict, group_name, state_key, compound) ==
    [group_dict EXCEPT !.val[group_name][state_key] = <<compound>> \o @]

\* storage_groups[group][state_key].append(compound)
Append2(group_dict, group_name, state_key, compound) ==
    [group_dict EXCEPT !.val[group_name][state_key] = Append(@, compound)]

\* storage_groups[new_group_name] = {"liquid": [], "solid": [], "gas": []}
NewGroup(group_dict, new_group_name) ==
    [keys |-> IF new_group_name \in DOMAIN group_dict.val THEN group_dict.keys
              ELSE Append(group_dict.keys, new_group_name),
     val  |-> [g \in DOMAIN group_dict.val \cup {new_group_name} |->
                 IF g = new_group_name
                 THEN [k \in {"liquid", "solid", "gas"} |-> <<>>]
                 ELSE group_dict.val[g]]]

(***************************************************************************)
(* Compound records, as process_compound builds them and as test_compounds *)
(* lists them.                                                             *)
(***************************************************************************)
Compound(name, pictograms, statements, class, state) ==
    [name |-> name, sorted_pictograms |-> pictograms, hazard_statements |-> statements,
     acid_base_class |-> class, state_room_temp |-> state]

Severe == "Causes severe skin burns and eye damage"

Catalogue ==
    { Compound("Nitric Acid", <<"Corrosive">>, <<Severe>>, PyStr("acid"), "liquid"),
      Compound("NITRIC ACID", <<"Corrosive">>, <<>>, PyStr("base"), "liquid"),
      Compound("nitric acid", <<>>, <<>>, PyStr("acid"), "liquid"),
      Compound("Triflic Acid", <<"Corrosive">>, <<Severe>>, PyStr("acid"), "liquid"),
      Compound("Ammonium Hydroxide", <<"Corrosive">>, <<>>, PyStr("base"), "liquid"),
      Compound("Calcium Oxide", <<"Corrosive">>, <<Severe>>, PyStr("neutral"), "liquid"),
      Compound("Hydrogen Peroxide", <<"Oxidizer", "Corrosive">>, <<"May intensify fire">>,
               PyStr("neutral"), "liquid"),
      Compound("Potassium Permanganate", <<"Oxidizer">>, <<"May intensify fire">>,
               PyStr("unknown"), "solid"),
      Compound("Magnesium", <<"Flammable">>, <<>>, PyStr("unknown"), "solid"),
      Compound("Toluene", <<"Flammable", "Health Hazard">>, <<>>, PyStr("neutral"), "liquid"),
      Compound("White Phosphorus", <<"Flammable", "Acute Toxic">>,
               <<"Catches fire spontaneously", "Fatal if swallowed">>, PyStr("unknown"), "solid"),
      Compound("Ozone", <<"Oxidizer">>, <<"May intensify fire">>, PyStr("unknown"), "gas"),
      Compound("Acetic Acid", <<"Flammable">>, <<>>, PyTuple(<<"acid", "acid">>), "liquid"),
      Compound("Picric Acid", <<"Explosive", "Flammable">>, <<>>, PyStr("acid"), "solid"),
      Compound("Ammonium Nitrate", <<"Explosive", "Oxidizer">>, <<"May intensify fire">>,
               PyStr("neutral"), "solid"),
      Compound("Sodium Bicarbonate", <<>>, <<>>, PyStr("base"), "liquid"),
      Compound("Lactic Acid", <<>>, <<>>, PyStr("acid"), "liquid"),
      Compound("Phenol", <<"Acute Toxic", "Health Hazard">>, <<"Fatal if swallowed">>,
               PyStr("acid"), "solid"),
      Compound("Limonene", <<"Irritant">>, <<"Toxic to aquatic life">>, PyStr("unknown"), "liquid"),
      Compound("Benzene", <<"Biohazard">>, <<>>, PyStr("neutral"), "liquid"),
      Compound("Sodium Hypochlorite", <<"Corrosive">>, <<Severe>>,
               PyTuple(<<"Unsure (from GHS H290)">>), "liquid"),
      Compound("Carbon Dioxide", <<"Compressed Gas">>, <<>>, PyStr("unknown"), "gas"),
      Compound("Hydrogen Chloride", <<"Corrosive">>, <<Severe>>, PyStr("neutral"), "unknown") }

(***************************************************************************)
(* chemsort_multiple_order_3                                               *)
(***************************************************************************)
VARIABLES
    storage_groups,        \* the registry passed in, mutated in place
    pc,                    \* "idle", "loop", "returned" or "raised"
    compounds,             \* the list after sorted(compounds, key=compound_priority)
    idx,                   \* position of the for loop in compounds
    custom_group_counter,
    custom_groups,
    error,                 \* the exception that ended the call, "" if none
    input,                 \* the list as the caller passed it
    entry_groups,          \* the registry as it was when the call started
    last,                  \* what the latest loop iteration did
    calls,                 \* calls made so far
    passed,                \* compounds passed in so far, over all calls
    fn_pc,                 \* a single function applied on its own: "none", "called", "returned"
    fn_args,               \* its arguments
    fn_ret,                \* its return value
    program,               \* the app that runs: "app" (app.py), "backup" (Z_app_backup_first.py), "none"
    stored_compounds,      \* st.session_state.stored_compounds
    processed_compounds,   \* st.session_state.processed_compounds
    cache,                 \* st.session_state.cache
    app_error,             \* the exception that ended the latest handler, "" if none
    app_last,              \* what the latest handler was given and did
    ops                    \* operations so far in the session

sorter_vars == <<storage_groups, pc, compounds, idx, custom_group_counter, custom_groups,
                 error, input, entry_groups, last, calls, passed>>

fn_vars == <<fn_pc, fn_args, fn_ret>>

app_vars == <<program, stored_compounds, processed_compounds, cache, app_error, app_last, ops>>

vars == <<sorter_vars, fn_vars, app_vars>>

NoPriority == 100

\* Mutant: a compound without pictograms is given the first place, not the last.
compound_priority_none_first(compound) ==
    IF compound.sorted_pictograms # <<>>
    THEN PriorityGet(compound.sorted_pictograms[1], NoPriority)
    ELSE 0

compound_priority(compound) ==
    IF compound.sorted_pictograms # <<>>
    THEN PriorityGet(compound.sorted_pictograms[1], NoPriority)
    ELSE NoPriority

\* custom_groups = [key for key in storage_groups if key.startswith(custom_group_prefix)]
CustomGroupsOf(group_dict) ==
    SelectSeq(group_dict.keys, LAMBDA key : StartsWith(Chars(key), Chars(custom_group_prefix)))

\* Mutant: the bucket check looks at every state bucket of the group, not only state_key.
is_compatible_with_group_all_states(group_name, state_key, compound, group_dict) ==
    \A k \in DOMAIN group_dict.val[group_name] :
        \A n \in 1..Len(group_dict.val[group_name][k]) :
            LET existing == group_dict.val[group_name][k][n]
            IN  is_chemically_compatible(
                    existing.sorted_pictograms, compound.sorted_pictograms,
                    existing.acid_base_class, compound.acid_base_class,
                    existing.state_room_temp, compound.state_room_temp, group_name)

\* Mutant: the bucket check forgets the occupants and always checks the empty placeholder.
is_compatible_with_group_placeholder_only(group_name, state_key, compound, group_dict) ==
    is_chemically_compatible(<<>>, compound.sorted_pictograms, PyStr(""),
                             compound.acid_base_class, "", compound.state_room_temp, group_name)

\* Mutant: the loop over the occupants stops after the first one.
is_compatible_with_group_first_occupant(group_name, state_key, compound, group_dict) ==
    LET compounds_in_group == group_dict.val[group_name][state_key]
        existing == IF compounds_in_group = <<>>
                    THEN [sorted_pictograms |-> <<>>, acid_base_class |-> PyStr(""),
                          state_room_temp |-> ""]
                    ELSE compounds_in_group[1]
    IN  is_chemically_compatible(
            existing.sorted_pictograms, compound.sorted_pictograms,
            existing.acid_base_class, compound.acid_base_class,
            existing.state_room_temp, compound.state_room_temp, group_name)

is_compatible_with_group(group_name, state_key, compound, group_dict) ==
    LET compounds_in_group == group_dict.val[group_name][state_key]
    IN  IF compounds_in_group = <<>>
        THEN is_chemically_compatible(<<>>, compound.sorted_pictograms,
                                      PyStr(""), compound.acid_base_class,
                                      "", compound.state_room_temp, group_name)
        ELSE \A k \in 1..Len(compounds_in_group) :
                LET existing == compounds_in_group[k]
                IN  is_chemically_compatible(
                        existing.sorted_pictograms, compound.sorted_pictograms,
                        existing.acid_base_class, compound.acid_base_class,
                        existing.state_room_temp, compound.state_room_temp, group_name)

\* Mutant: a state that names neither liquid nor solid gets the key solid.
StateKey_else_solid(state) ==
    IF IsSubstring(Chars("liquid"), Chars(state)) THEN "liquid" ELSE "solid"

\* state_key = 'liquid' if 'liquid' in state else 'solid' if 'solid' in state else 'gas'
StateKey(state) ==
    IF IsSubstring(Chars("liquid"), Chars(state)) THEN "liquid"
    ELSE IF IsSubstring(Chars("solid"), Chars(state)) THEN "solid"
    ELSE "gas"

phrases_hazard ==
    <<"may cause genetic defects", "cancer", "may damage fertility", "causes damage to organs">>

phrases_flam ==
    <<"catches fire spontaneously", "in contact with water emits", "may react explosively">>

\* all_statements = " ".join(hazard_statements).lower()
AllStatements(compound) == Lower(Join(compound.hazard_statements))

AnyPhrase(phrases, all_statements) ==
    \E k \in 1..Len(phrases) : IsSubstring(Chars(phrases[k]), all_statements)

\* Mutant: the name test is loosened to any name that contains "acid".
is_nitric_acid_any_acid(chemical) == IsSubstring(Chars("acid"), Lower(Chars(chemical)))

\* chemical.lower() == "nitric acid"
is_nitric_acid(chemical) == Lower(Chars(chemical)) = Chars("nitric acid")

\* The branch on the first pictogram: which group the compound is appended to
\* without a check ("append"), offered to ("check"), or that it has none ("skip").
Route(compound) ==
    LET chemical == compound.name
        sorted_pictograms == compound.sorted_pictograms
        acid_base_class == Lower(Chars(compound.acid_base_class.str))
        all_statements == AllStatements(compound)
        first_picto == sorted_pictograms[1]
        is_base == IsSubstring(Chars("base"), acid_base_class)
        is_acid == IsSubstring(Chars("acid"), acid_base_class)
        is_severe == IsSubstring(Chars("causes severe skin burns and eye damage"), all_statements)
    IN  IF sorted_pictograms = <<>> THEN [mode |-> "skip", group |-> ""]
        ELSE IF is_nitric_acid(chemical)
             THEN [mode |-> "append", group |-> "nitric_acid"]
        ELSE IF first_picto = "Compressed Gas"
             THEN [mode |-> "append", group |-> "compressed_gas"]
        ELSE IF first_picto = "Explosive"
             THEN [mode |-> "append", group |-> "explosive"]
        ELSE IF first_picto = "Oxidizer"
             THEN [mode |-> "check", group |-> "oxidizer"]
        ELSE IF first_picto = "Flammable"
             THEN [mode |-> "check",
                   group |-> IF AnyPhrase(phrases_flam, all_statements)
                             THEN "pyrophoric" ELSE "flammable"]
        ELSE IF first_picto = "Corrosive"
             THEN IF is_base
                  THEN [mode |-> "check",
                        group |-> IF is_severe THEN "base_corrosive_1" ELSE "base_irritant"]
                  ELSE IF is_acid
                  THEN [mode |-> "check",
                        group |-> IF is_severe THEN "acid_corrosive_1" ELSE "acid_irritant"]
                  ELSE [mode |-> "skip", group |-> ""]
        ELSE IF first_picto \in {"Acute Toxic", "Health Hazard"}
             THEN [mode |-> "check",
                   group |-> IF \/ IsSubstring(Chars("fatal"), all_statements)
                                \/ IsSubstring(Chars("toxic"), all_statements)
                             THEN "acute_toxicity"
                             ELSE IF AnyPhrase(phrases_hazard, all_statements)
                             THEN "cmr_stot" ELSE "toxicity_2_3"]
        ELSE IF first_picto \in {"Irritant", "Environmental Hazard"}
             THEN [mode |-> "check",
                   group |-> IF IsSubstring(Chars("toxic to aquatic life"), all_statements)
                             THEN "hazardous_environment" ELSE "none"]
        ELSE [mode |-> "skip", group |-> ""]

\* what one loop iteration does
Placed(group, state_key, via, counter) ==
    [exc |-> "", group |-> group, state_key |-> state_key, via |-> via, counter |-> counter]

Raises(exc, state_key, counter) ==
    [exc |-> exc, group |-> "", state_key |-> state_key, via |-> "", counter |-> counter]

\* for custom_group in custom_groups: the first one that accepts, "" if none does
\* Mutant: the first overflow group takes the compound without being asked.
FirstCustom_unchecked(groups, state_key, compound, group_dict) ==
    IF groups = <<>> THEN ""
    ELSE IF ~ HasBucket(group_dict, Head(groups), state_key) THEN "KeyError"
    ELSE Head(groups)

\* Mutant: only the oldest overflow group is asked.
FirstCustom_first_only(groups, state_key, compound, group_dict) ==
    IF groups = <<>> THEN ""
    ELSE IF ~ HasBucket(group_dict, Head(groups), state_key) THEN "KeyError"
    ELSE IF is_compatible_with_group(Head(groups), state_key, compound, group_dict)
         THEN Head(groups)
    ELSE ""

RECURSIVE FirstCustom(_, _, _, _)
FirstCustom(groups, state_key, compound, group_dict) ==
    IF groups = <<>> THEN ""
    ELSE IF ~ HasBucket(group_dict, Head(groups), state_key) THEN "KeyError"
    ELSE IF is_compatible_with_group(Head(groups), state_key, compound, group_dict)
         THEN Head(groups)
    ELSE FirstCustom(Tail(groups), state_key, compound, group_dict)

\* Mutant: the name is formatted from the counter without looking it up in the registry.
FreeCounter_unchecked(counter, group_dict) == counter

\* while True: ... if new_group_name not in storage_groups: break; custom_group_counter += 1
RECURSIVE FreeCounter(_, _)
FreeCounter(counter, group_dict) ==
    IF CustomName(counter) \notin DOMAIN group_dict.val THEN counter
    ELSE FreeCounter(counter + 1, group_dict)

\* the part of the loop body that runs when the compound is not sorted yet
Fallback(compound, state_key, group_dict, groups, counter) ==
    LET create == Placed(CustomName(FreeCounter(counter, group_dict)), state_key, "new",
                         FreeCounter(counter, group_dict))
    IN  IF compound.sorted_pictograms = <<>>
        THEN IF ~ HasBucket(group_dict, "none", state_key)
             THEN Raises("KeyError", state_key, counter)
             ELSE IF is_compatible_with_group("none", state_key, compound, group_dict)
             THEN Placed("none", state_key, "fallback", counter)
             ELSE create
        ELSE LET found == FirstCustom(groups, state_key, compound, group_dict)
             IN  IF found = "KeyError" THEN Raises("KeyError", state_key, counter)
                 ELSE IF found # "" THEN Placed(found, state_key, "custom", counter)
                 ELSE create

\* the loop body once state_key and the branch on the first pictogram are known
Dispatch(compound, state_key, route, group_dict, groups, counter) ==
    IF route.mode # "skip" /\ ~ HasBucket(group_dict, route.group, state_key)
    THEN Raises("KeyError", state_key, counter)
    ELSE IF route.mode = "append"
    THEN Placed(route.group, state_key, "append", counter)
    ELSE IF /\ route.mode = "check"
            /\ is_compatible_with_group(route.group, state_key, compound, group_dict)
    THEN Placed(route.group, state_key, "check", counter)
    ELSE Fallback(compound, state_key, group_dict, groups, counter)

\* the body of `for compound in compounds`
LoopBody(compound, group_dict, groups, counter) ==
    IF compound.acid_base_class.tuple
    THEN Raises("AttributeError", "", counter)
    ELSE Dispatch(compound, StateKey(compound.state_room_temp), Route(compound),
                  group_dict, groups, counter)

\* the registry after the iteration
Store(group_dict, compound, did) ==
    IF did.exc # "" THEN group_dict
    ELSE IF did.via = "new"
    THEN Append2(NewGroup(group_dict, did.group), did.group, did.state_key, compound)
    ELSE Append2(group_dict, did.group, did.state_key, compound)

NoStep == [compound |-> Compound("", <<>>, <<>>, PyStr(""), ""), did |-> Raises("", "", 0)]

SorterIdle ==
    /\ storage_groups = initialize_storage_groups
    /\ pc = "idle"
    /\ compounds = <<>>
    /\ idx = 0
    /\ custom_group_counter = 0
    /\ custom_groups = <<>>
    /\ error = ""
    /\ input = <<>>
    /\ entry_groups = initialize_storage_groups
    /\ last = NoStep
    /\ calls = 0
    /\ passed = 0

\* no app runs
NoOp == [op |-> "", name |-> "", outcomes |-> <<>>]

AppIdle ==
    /\ stored_compounds = <<>>
    /\ processed_compounds = <<>>
    /\ cache = <<>>
    /\ app_error = ""
    /\ app_last = NoOp
    /\ ops = 0

Init ==
    /\ SorterIdle
    /\ program = "none"
    /\ AppIdle
    /\ fn_pc = "none"
    /\ fn_args = <<>>
    /\ fn_ret = <<>>

\* chemsort_multiple_order_3(list, storage_groups) up to the for loop
Call(list) ==
    /\ compounds' = SortedByKey(list, [c \in Range(list) |-> compound_priority(c)])
    /\ custom_group_counter' = 1
    /\ custom_groups' = CustomGroupsOf(storage_groups)
    /\ idx' = 1
    /\ pc' = "loop"
    /\ error' = ""
    /\ input' = list
    /\ entry_groups' = storage_groups
    /\ last' = NoStep
    /\ calls' = calls + 1
    /\ passed' = passed + Len(list)
    /\ UNCHANGED <<storage_groups, fn_vars, app_vars>>

\* the effect of an iteration that places its compound
Placing(compound, did) ==
    /\ did.exc = ""
    /\ storage_groups' = Store(storage_groups, compound, did)
    /\ custom_groups' = IF did.via = "new" THEN Append(custom_groups, did.group)
                        ELSE custom_groups
    /\ custom_group_counter' = did.counter
    /\ last' = [compound |-> compound, did |-> did]

\* one iteration of the for loop that places its compound
Place ==
    /\ pc = "loop"
    /\ idx <= Len(compounds)
    /\ Placing(compounds[idx],
               LoopBody(compounds[idx], storage_groups, custom_groups, custom_group_counter))
    /\ idx' = idx + 1
    /\ UNCHANGED <<pc, compounds, error, input, entry_groups, calls, passed, fn_vars, app_vars>>

\* the effect of an iteration that raises
Raising(compound, did) ==
    /\ did.exc # ""
    /\ error' = did.exc
    /\ last' = [compound |-> compound, did |-> did]

\* one iteration of the for loop that raises: the call ends there
Raise ==
    /\ pc = "loop"
    /\ idx <= Len(compounds)
    /\ Raising(compounds[idx],
               LoopBody(compounds[idx], storage_groups, custom_groups, custom_group_counter))
    /\ pc' = "raised"
    /\ UNCHANGED <<storage_groups, compounds, idx, custom_group_counter, custom_groups,
                   input, entry_groups, calls, passed, fn_vars, app_vars>>

\* return storage_groups
Return ==
    /\ pc = "loop"
    /\ idx > Len(compounds)
    /\ pc' = "returned"
    /\ UNCHANGED <<storage_groups, compounds, idx, custom_group_counter, custom_groups,
                   error, input, entry_groups, last, calls, passed, fn_vars, app_vars>>

Next ==
    \/ /\ pc \in {"idle", "returned", "raised"}
       /\ calls < MaxCalls
       /\ \E n \in 1..(MaxCompounds - passed) : \E list \in [1..n -> Catalogue] : Call(list)
    \/ Place
    \/ Raise
    \/ Return

Spec == Init /\ [][Next]_vars

(***************************************************************************)
(* prioritize_pictograms applied on its own to a list of labels.           *)
(***************************************************************************)
Labels == Pictograms \cup {"Biohazard"}

InitPrioritize ==
    /\ SorterIdle
    /\ program = "none"
    /\ AppIdle
    /\ fn_pc = "called"
    /\ fn_args \in UNION {[1..n -> Labels] : n \in 0..MaxPictograms}
    /\ fn_ret = <<>>

ApplyPrioritize ==
    /\ fn_pc = "called"
    /\ fn_ret' = prioritize_pictograms(fn_args)
    /\ fn_pc' = "returned"
    /\ UNCHANGED <<sorter_vars, fn_args, app_vars>>

SpecPrioritize == InitPrioritize /\ [][ApplyPrioritize]_vars

(***************************************************************************)
(* is_chemically_compatible applied on its own.                            *)
(***************************************************************************)
Profile(pictograms, class, state) ==
    [sorted_pictograms |-> pictograms, acid_base_class |-> class, state_room_temp |-> state]

\* what is_compatible_with_group passes for an empty bucket
EmptyProfile == Profile(<<>>, PyStr(""), "")

RulePictograms == {"Oxidizer", "Flammable", "Corrosive", "Health Hazard", "Acute Toxic", "Irritant"}

Classes ==
    {PyStr("acid"), PyStr("base"), PyStr("unknown"), PyStr("Invalid SMILES"),
     PyTuple(<<"acid">>), PyTuple(<<"acid", "basic">>), PyTuple(<<"base">>)}

States == {"solid", "liquid", "gas", "unknown"}

Candidates ==
    {Profile(p, c, s) : p \in UNION {[1..n -> RulePictograms] : n \in 0..MaxRulePictograms},
                        c \in Classes, s \in States}

Occupants ==
    {EmptyProfile,
     Profile(<<"Corrosive">>, PyStr("acid"), "liquid"),
     Profile(<<"Flammable", "Health Hazard">>, PyStr("unknown"), "solid"),
     Profile(<<"Oxidizer">>, PyStr("base"), "gas")}

GroupNames == Range(FixedGroups) \cup {CustomName(1), CustomName(2), "", "OXIDIZER"}

InitCompatible ==
    /\ SorterIdle
    /\ program = "none"
    /\ AppIdle
    /\ fn_pc = "called"
    /\ fn_args \in [existing : Occupants, candidate : Candidates, group_name : GroupNames]
    /\ fn_ret = <<>>

ApplyCompatible ==
    /\ fn_pc = "called"
    /\ fn_ret' = is_chemically_compatible(
                     fn_args.existing.sorted_pictograms, fn_args.candidate.sorted_pictograms,
                     fn_args.existing.acid_base_class, fn_args.candidate.acid_base_class,
                     fn_args.existing.state_room_temp, fn_args.candidate.state_room_temp,
                     fn_args.group_name)
    /\ fn_pc' = "returned"
    /\ UNCHANGED <<sorter_vars, fn_args, app_vars>>

SpecCompatible == InitCompatible /\ [][ApplyCompatible]_vars

(***************************************************************************)
(* is_compatible_with_group applied on its own to a bucket with occupants. *)
(***************************************************************************)
\* the buckets: up to MaxOccupants occupants
Buckets == UNION {[1..n -> Occupants \ {EmptyProfile}] : n \in 1..MaxOccupants}

\* candidates with at most one pictogram
BucketCandidates == {c \in Candidates : Len(c.sorted_pictograms) <= 1}

\* the groups whose bucket is checked: a fixed one and an overflow group
BucketGroups == {"flammable", "acid_irritant", CustomName(1)}

\* a registry whose bucket group_name/state_key holds the given occupants
WithBucket(group_name, state_key, bucket) ==
    LET group_dict == NewGroup(initialize_storage_groups, CustomName(1))
    IN  [group_dict EXCEPT !.val[group_name][state_key] = bucket]

InitBucket ==
    /\ SorterIdle
    /\ program = "none"
    /\ AppIdle
    /\ fn_pc = "called"
    /\ fn_args \in {a \in [bucket : Buckets, candidate : BucketCandidates,
                            group_name : BucketGroups] :
                       HasBucket(NewGroup(initialize_storage_groups, CustomName(1)),
                                 a.group_name, StateKey(a.candidate.state_room_temp))}
    /\ fn_ret = <<>>

ApplyBucket ==
    /\ fn_pc = "called"
    /\ fn_ret' = is_compatible_with_group(
                     fn_args.group_name, StateKey(fn_args.candidate.state_room_temp),
                     fn_args.candidate,
                     WithBucket(fn_args.group_name,
                                StateKey(fn_args.candidate.state_room_temp), fn_args.bucket))
    /\ fn_pc' = "returned"
    /\ UNCHANGED <<sorter_vars, fn_args, app_vars>>

SpecBucket == InitBucket /\ [][ApplyBucket]_vars

(***************************************************************************)
(* chemsort_multiple_order_3 as the apps call it: the whole call at once.  *)
(* The registry is mutated in place, so what was appended before an        *)
(* exception stays in it.                                                  *)
(***************************************************************************)
RECURSIVE RunLoop(_, _, _, _, _)
RECURSIVE RunStep(_, _, _, _, _)

\* the iterations from position k on
RunLoop(list, k, group_dict, groups, counter) ==
    IF k > Len(list) THEN [storage_groups |-> group_dict, exc |-> ""]
    ELSE RunStep(list, k, group_dict, groups,
                 LoopBody(list[k], group_dict, groups, counter))

RunStep(list, k, group_dict, groups, did) ==
    IF did.exc # "" THEN [storage_groups |-> group_dict, exc |-> did.exc]
    ELSE RunLoop(list, k + 1, Store(group_dict, list[k], did),
                 IF did.via = "new" THEN Append(groups, did.group) ELSE groups,
                 did.counter)

chemsort_multiple_order_3(list, group_dict) ==
    RunLoop(SortedByKey(list, [c \in Range(list) |-> compound_priority(c)]),
            1, group_dict, CustomGroupsOf(group_dict), 1)

(***************************************************************************)
(* The apps: app.py and Z_app_backup_first.py, one session.                *)
(***************************************************************************)
\* the records the lookups of process_compound can build: the class is what
\* classify_acid_base returns, "unknown", "Invalid SMILES" or a tuple of tags
AppRecords ==
    {c \in Catalogue : \/ c.acid_base_class.tuple
                       \/ c.acid_base_class.str \in {"unknown", "Invalid SMILES"}}

Names == {c.name : c \in AppRecords}

RecordOf(name) == CHOOSE c \in AppRecords : c.name = name

\* how the lookups of one compound end: data found, no CID, or an exception
Outcomes == {"found", "no_cid", "exception"}

create_error_compound_data(compound_name, error_message) ==
    [has_error |-> TRUE,
     data |-> Compound(compound_name, <<>>, <<error_message>>, PyStr("unknown"), "unknown")]

\* Mutant: an exception during processing is not turned into an error entry.
process_compound_error_passes(compound_name, outcome) ==
    [has_error |-> FALSE,
     data |-> IF outcome = "found" THEN RecordOf(compound_name)
              ELSE Compound(compound_name, <<>>, <<"Error processing">>, PyStr("unknown"), "unknown")]

\* process_compound of app.py
process_compound(compound_name, outcome) ==
    IF compound_name \in DOMAIN cache
    THEN [has_error |-> FALSE, data |-> cache[compound_name]]
    ELSE IF outcome = "no_cid"
    THEN create_error_compound_data(compound_name, "Could not find safety data")
    ELSE IF outcome = "exception"
    THEN create_error_compound_data(compound_name, "Error processing")
    ELSE [has_error |-> FALSE, data |-> RecordOf(compound_name)]

\* d[key] = value
DictSet(d, key, value) == [k \in DOMAIN d \cup {key} |-> IF k = key THEN value ELSE d[k]]

\* del d[key]
DictDel(d, key) == [k \in DOMAIN d \ {key} |-> d[k]]

\* list.remove(x) for a list that holds x once
ListRemove(list, x) == SelectSeq(list, LAMBDA y : y # x)

AppInit ==
    /\ SorterIdle
    /\ fn_pc = "none"
    /\ fn_args = <<>>
    /\ fn_ret = <<>>
    /\ program \in {"app", "backup"}
    /\ AppIdle

AppFrame == UNCHANGED <<pc, compounds, idx, custom_group_counter, custom_groups, error,
                        input, entry_groups, last, calls, passed, fn_vars, program>>

\* Mutant: the name is put on the list also when process_compound reports an error.
Adding_lists_failed(compound_name, result, sorted) ==
    IF result.has_error
    THEN /\ app_error' = ""
         /\ stored_compounds' = Append(stored_compounds, compound_name)
         /\ UNCHANGED <<processed_compounds, cache, storage_groups>>
    ELSE /\ cache' = DictSet(cache, compound_name, result.data)
         /\ stored_compounds' = Append(stored_compounds, compound_name)
         /\ processed_compounds' = Append(processed_compounds, result.data)
         /\ storage_groups' = sorted.storage_groups
         /\ app_error' = sorted.exc

\* the end of the Add handler of app.py once process_compound has answered
Adding(compound_name, result, sorted) ==
    IF result.has_error
    THEN /\ app_error' = ""
         /\ UNCHANGED <<stored_compounds, processed_compounds, cache, storage_groups>>
    ELSE /\ cache' = DictSet(cache, compound_name, result.data)
         /\ stored_compounds' = Append(stored_compounds, compound_name)
         /\ processed_compounds' = Append(processed_compounds, result.data)
         /\ storage_groups' = sorted.storage_groups
         /\ app_error' = sorted.exc

\* app.py: the compound_form submit handler
AddCompound(compound_name, outcome) ==
    /\ program = "app"
    /\ ops < MaxOps
    /\ ops' = ops + 1
    /\ app_last' = [op |-> "add", name |-> compound_name, outcomes |-> <<outcome>>]
    /\ IF InList(compound_name, stored_compounds)
       THEN /\ app_error' = ""
            /\ UNCHANGED <<stored_compounds, processed_compounds, cache, storage_groups>>
       ELSE Adding(compound_name, process_compound(compound_name, outcome),
                   chemsort_multiple_order_3(
                       Append(processed_compounds,
                              process_compound(compound_name, outcome).data),
                       storage_groups))
    /\ AppFrame

\* Mutant: the delete button also takes the compound out of its bucket of the registry.
DeleteCompound_unsorts(compound) ==
    /\ program = "app"
    /\ ops < MaxOps
    /\ ops' = ops + 1
    /\ InList(compound, stored_compounds)
    /\ stored_compounds' = ListRemove(stored_compounds, compound)
    /\ processed_compounds' = SelectSeq(processed_compounds, LAMBDA c : c.name # compound)
    /\ cache' = IF compound \in DOMAIN cache THEN DictDel(cache, compound) ELSE cache
    /\ app_error' = ""
    /\ app_last' = [op |-> "deleted", name |-> compound, outcomes |-> <<>>]
    /\ storage_groups' =
          [storage_groups EXCEPT !.val =
              [g \in DOMAIN storage_groups.val |->
                  [k \in DOMAIN storage_groups.val[g] |->
                      SelectSeq(storage_groups.val[g][k], LAMBDA c : c.name # compound)]]]
    /\ AppFrame

\* app.py: the delete button of a stored compound
DeleteCompound(compound) ==
    /\ program = "app"
    /\ ops < MaxOps
    /\ ops' = ops + 1
    /\ InList(compound, stored_compounds)
    /\ stored_compounds' = ListRemove(stored_compounds, compound)
    /\ processed_compounds' = SelectSeq(processed_compounds, LAMBDA c : c.name # compound)
    /\ cache' = IF compound \in DOMAIN cache THEN DictDel(cache, compound) ELSE cache
    /\ app_error' = ""
    /\ app_last' = [op |-> "deleted", name |-> compound, outcomes |-> <<>>]
    /\ UNCHANGED storage_groups
    /\ AppFrame

\* both apps: the Clear All button
ClearAll ==
    /\ program \in {"app", "backup"}
    /\ ops < MaxOps
    /\ ops' = ops + 1
    /\ stored_compounds' = <<>>
    /\ processed_compounds' = <<>>
    /\ storage_groups' = initialize_storage_groups
    /\ cache' = <<>>
    /\ app_error' = ""
    /\ app_last' = [op |-> "cleared", name |-> "", outcomes |-> <<>>]
    /\ AppFrame

\* Z_app_backup_first.py: add_compound
add_compound(compound) ==
    /\ program = "backup"
    /\ ops < MaxOps
    /\ ops' = ops + 1
    /\ stored_compounds' = IF InList(compound, stored_compounds) THEN stored_compounds
                           ELSE Append(stored_compounds, compound)
    /\ app_error' = ""
    /\ app_last' = [op |-> "listed", name |-> compound, outcomes |-> <<>>]
    /\ UNCHANGED <<processed_compounds, cache, storage_groups>>
    /\ AppFrame

\* Z_app_backup_first.py: remove_compound
remove_compound(compound) ==
    /\ program = "backup"
    /\ ops < MaxOps
    /\ ops' = ops + 1
    /\ InList(compound, stored_compounds)
    /\ stored_compounds' = ListRemove(stored_compounds, compound)
    /\ app_error' = ""
    /\ app_last' = [op |-> "unlisted", name |-> compound, outcomes |-> <<>>]
    /\ UNCHANGED <<processed_compounds, cache, storage_groups>>
    /\ AppFrame

\* results of process_compounds: the records of the compounds whose data was found
RECURSIVE Results(_, _)
Results(names, outcomes) ==
    IF names = <<>> THEN <<>>
    ELSE (IF Head(outcomes) = "found" THEN <<RecordOf(Head(names))>> ELSE <<>>)
         \o Results(Tail(names), Tail(outcomes))

\* the end of process_compounds once the lookups have answered
Processing(outcomes, results, sorted) ==
    /\ app_last' = [op |-> "processed", name |-> "", outcomes |-> outcomes]
    /\ IF \E k \in 1..Len(outcomes) : outcomes[k] = "exception"
       THEN /\ app_error' = "Exception"
            /\ UNCHANGED <<processed_compounds, storage_groups>>
       ELSE IF results = <<>>
       THEN /\ app_error' = ""
            /\ UNCHANGED <<processed_compounds, storage_groups>>
       ELSE IF sorted.exc # ""
       THEN /\ app_error' = sorted.exc
            /\ UNCHANGED <<processed_compounds, storage_groups>>
       ELSE /\ app_error' = ""
            /\ processed_compounds' = results
            /\ storage_groups' = sorted.storage_groups

\* Z_app_backup_first.py: the Process Compounds button, process_compounds(stored_compounds)
\* Mutant: the compounds are sorted into the registry of the session.
process_compounds_into_session(outcomes) ==
    /\ program = "backup"
    /\ ops < MaxOps
    /\ ops' = ops + 1
    /\ Processing(outcomes, Results(stored_compounds, outcomes),
                  chemsort_multiple_order_3(Results(stored_compounds, outcomes),
                                            storage_groups))
    /\ UNCHANGED <<stored_compounds, cache>>
    /\ AppFrame

process_compounds(outcomes) ==
    /\ program = "backup"
    /\ ops < MaxOps
    /\ ops' = ops + 1
    /\ Processing(outcomes, Results(stored_compounds, outcomes),
                  chemsort_multiple_order_3(Results(stored_compounds, outcomes),
                                            initialize_storage_groups))
    /\ UNCHANGED <<stored_compounds, cache>>
    /\ AppFrame

AppNext ==
    \/ \E compound_name \in Names : \E outcome \in Outcomes : AddCompound(compound_name, outcome)
    \/ \E compound \in Names : DeleteCompound(compound)
    \/ ClearAll
    \/ \E compound \in Names : add_compound(compound)
    \/ \E compound \in Names : remove_compound(compound)
    \/ \E outcomes \in [1..Len(stored_compounds) -> Outcomes] : process_compounds(outcomes)

SpecApp == AppInit /\ [][AppNext]_vars

(***************************************************************************)
(* A class as classify_acid_base returns it, taken through rule 1 of       *)
(* is_chemically_compatible and through one iteration of the loop of       *)
(* chemsort_multiple_order_3 on a Corrosive compound.                      *)
(***************************************************************************)
\* results of classify_acid_base, and the single strings test_compounds uses
ClassifyResults ==
    {PyStr("unknown"), PyStr("acid"), PyStr("base"), PyStr("basic"),
     PyTuple(<<"acid">>), PyTuple(<<"base">>), PyTuple(<<"basic">>),
     PyTuple(<<"acid", "basic">>), PyTuple(<<"acid", "base">>),
     PyTuple(<<"base", "basic">>), PyTuple(<<"Unsure (from GHS H290)", "basic">>)}

InitClass ==
    /\ SorterIdle
    /\ program = "none"
    /\ AppIdle
    /\ fn_pc = "called"
    /\ fn_args \in [class : ClassifyResults, other : ClassifyResults,
                    hazard_statements : {<<>>, <<Severe>>}, state_room_temp : {"liquid", "unknown"}]
    /\ fn_ret = <<>>

\* rule 1, the compound of class fn_args.class being the new one
ApplyRule1 ==
    /\ fn_pc = "called"
    /\ fn_ret' = Rule1(fn_args.other, fn_args.class)
    /\ fn_pc' = "rule 1"
    /\ UNCHANGED <<sorter_vars, fn_args, app_vars>>

\* the loop body on a Corrosive compound of that class, first of a call on a new registry
ApplyLoopBody ==
    /\ fn_pc = "called"
    /\ fn_ret' = LoopBody(Compound("Calcium Oxide", <<"Corrosive">>, fn_args.hazard_statements,
                                   fn_args.class, fn_args.state_room_temp),
                          initialize_storage_groups, <<>>, 1)
    /\ fn_pc' = "loop body"
    /\ UNCHANGED <<sorter_vars, fn_args, app_vars>>

NextClass == ApplyRule1 \/ ApplyLoopBody

SpecClass == InitClass /\ [][NextClass]_vars

(***************************************************************************)
(* Reading the registry.                                                   *)
(***************************************************************************)
\* every position <<group, state key, index>> that holds a compound
Slots(group_dict) ==
    UNION {UNION {{<<g, k, n>> : n \in 1..Len(group_dict.val[g][k])} : k \in DOMAIN group_dict.val[g]} : g \in DOMAIN group_dict.val}

At(group_dict, slot) == group_dict.val[slot[1]][slot[2]][slot[3]]

\* how many times a compound is stored in the registry
Occurrences(compound, group_dict) ==
    Cardinality({slot \in Slots(group_dict) : At(group_dict, slot) = compound})

\* how many times a compound is listed in an input list
Listed(compound, list) == Cardinality({n \in 1..Len(list) : list[n] = compound})

IsNitricAcid(compound) == Lower(Chars(compound.name)) = Chars("nitric acid")

Dominant(compound) ==
    IF compound.sorted_pictograms = <<>> THEN "" ELSE compound.sorted_pictograms[1]

CallEnded == pc \in {"returned", "raised"}

FreshCall == calls >= 1 /\ entry_groups = initialize_storage_groups

\* the groups chemsort_multiple_order_3 appends to without a check
UncheckedGroups == {"nitric_acid", "explosive", "compressed_gas"}

\* the compounds of one bucket are compatible pair by pair, in both orders
PairwiseCompatible(group_dict, g, k) ==
    LET bucket == group_dict.val[g][k]
    IN  \A m, n \in 1..Len(bucket) :
            m # n => is_chemically_compatible(
                        bucket[m].sorted_pictograms, bucket[n].sorted_pictograms,
                        bucket[m].acid_base_class, bucket[n].acid_base_class,
                        bucket[m].state_room_temp, bucket[n].state_room_temp, g)

(***************************************************************************)
(* C1.  Total placement: once a call on a freshly initialised registry has *)
(* ended, every compound of the input list is stored exactly as often as   *)
(* it is listed and the registry holds as many entries as the list.        *)
(* The code raises on some well-formed records (C3), and then the compound *)
(* it raised on and all later ones are in no bucket.                       *)
(***************************************************************************)
C1_TotalPlacement ==
    (CallEnded /\ FreshCall) =>
        /\ Cardinality(Slots(storage_groups)) = Len(input)
        /\ \A n \in 1..Len(input) :
              Occurrences(input[n], storage_groups) = Listed(input[n], input)

(***************************************************************************)
(* C2.  After the call returns, every two compounds sharing a bucket are   *)
(* compatible under is_chemically_compatible for that group.               *)
(* As claimed (every group) it fails: nitric_acid, explosive and           *)
(* compressed_gas are appended to without a check.  It holds for every     *)
(* other group.                                                            *)
(***************************************************************************)
C2_AllBucketsCompatible ==
    pc = "returned" =>
        \A g \in DOMAIN storage_groups.val : \A k \in DOMAIN storage_groups.val[g] :
            PairwiseCompatible(storage_groups, g, k)

C2_CheckedBucketsCompatible ==
    pc = "returned" =>
        \A g \in DOMAIN storage_groups.val \ UncheckedGroups :
            \A k \in DOMAIN storage_groups.val[g] :
                PairwiseCompatible(storage_groups, g, k)

\* a returned call that left two different compounds in one bucket of a checked group
C2_Witness ==
    /\ pc = "returned"
    /\ \E g \in DOMAIN storage_groups.val \ UncheckedGroups :
          \E k \in DOMAIN storage_groups.val[g] :
              /\ Len(storage_groups.val[g][k]) >= 2
              /\ storage_groups.val[g][k][1] # storage_groups.val[g][k][2]

(***************************************************************************)
(* C3.  chemsort_multiple_order_3 never raises for a well-formed record.   *)
(* The code raises KeyError for a state key the target group lacks and     *)
(* AttributeError for a tuple of tags.                                     *)
(***************************************************************************)
C3_NeverRaises == pc # "raised" /\ error = ""

(***************************************************************************)
(* C4.  A compound named "nitric acid" in any letter case is always        *)
(* appended to nitric_acid, without a check, whatever its pictograms.      *)
(* The code tests the name only when the pictogram list is not empty.      *)
(***************************************************************************)
C4_NitricAcidAlways ==
    (last # NoStep /\ IsNitricAcid(last.compound)) =>
        /\ last.did.exc = ""
        /\ last.did.group = "nitric_acid"
        /\ last.did.via = "append"

(***************************************************************************)
(* C5.  A compound tagged acid and a compound tagged base, both with the   *)
(* pictograms [Corrosive] and the state liquid, never share a bucket.      *)
(* As claimed it fails when both are named nitric acid: both are appended  *)
(* to nitric_acid/liquid without a check.  It holds unless both carry that *)
(* name.                                                                   *)
(***************************************************************************)
CorrosiveLiquid(compound) ==
    /\ compound.sorted_pictograms = <<"Corrosive">>
    /\ compound.state_room_temp = "liquid"

\* the acid/base pairs of the claim that sit in one bucket
ClashingPairs ==
    {pair \in Slots(storage_groups) \X Slots(storage_groups) :
        /\ pair[1][1] = pair[2][1]
        /\ pair[1][2] = pair[2][2]
        /\ CorrosiveLiquid(At(storage_groups, pair[1]))
        /\ CorrosiveLiquid(At(storage_groups, pair[2]))
        /\ In("acid", At(storage_groups, pair[1]).acid_base_class)
        /\ In("base", At(storage_groups, pair[2]).acid_base_class)}

C5_AcidBaseNeverShare == ClashingPairs = {}

C5_AcidBaseShareOnlyAsNitricAcid ==
    \A pair \in ClashingPairs :
        /\ IsNitricAcid(At(storage_groups, pair[1]))
        /\ IsNitricAcid(At(storage_groups, pair[2]))
        /\ pair[1][1] = "nitric_acid"

\* an acid and a base of the claim, neither named nitric acid, both sorted by one call
C5_Witness ==
    /\ pc = "returned"
    /\ \E s, t \in Slots(storage_groups) :
          /\ CorrosiveLiquid(At(storage_groups, s)) /\ CorrosiveLiquid(At(storage_groups, t))
          /\ In("acid", At(storage_groups, s).acid_base_class)
          /\ In("base", At(storage_groups, t).acid_base_class)
          /\ ~ IsNitricAcid(At(storage_groups, s)) /\ ~ IsNitricAcid(At(storage_groups, t))
          /\ <<s[1], s[2]>> # <<t[1], t[2]>>

(***************************************************************************)
(* C6.  A compound whose dominant pictogram is Oxidizer, handled first by  *)
(* a call on an empty registry, always lands in oxidizer, in the bucket of *)
(* its state.                                                              *)
(* As claimed it fails: rule 5 rejects from oxidizer a candidate that also *)
(* carries Flammable or Corrosive, which then opens custom_storage_1.      *)
(* Amended: it is placed nowhere but in oxidizer/its state key when it     *)
(* carries neither and is not named nitric acid, and in custom_storage_1   *)
(* when it carries one of them; the call places nothing only when it       *)
(* raises, which it does for the state key gas or a tuple class (C3).      *)
(***************************************************************************)
\* `last` is the first iteration of a call on a freshly initialised registry
FirstOnFresh ==
    /\ FreshCall
    /\ last # NoStep
    /\ idx = IF pc = "raised" THEN 1 ELSE 2

C6_OxidizerFirstLandsInOxidizer ==
    (FirstOnFresh /\ Dominant(last.compound) = "Oxidizer") =>
        /\ last.did.exc = ""
        /\ last.did.group = "oxidizer"
        /\ last.did.state_key = StateKey(last.compound.state_room_temp)
        /\ storage_groups.val["oxidizer"][last.did.state_key] = <<last.compound>>

C6_OxidizerFirstAmended ==
    (FirstOnFresh /\ Dominant(last.compound) = "Oxidizer" /\ ~ IsNitricAcid(last.compound)) =>
        LET rejected == \/ InList("Flammable", last.compound.sorted_pictograms)
                        \/ InList("Corrosive", last.compound.sorted_pictograms)
            key == StateKey(last.compound.state_room_temp)
        IN  IF last.did.exc # ""
            THEN key = "gas" \/ last.compound.acid_base_class.tuple
            ELSE /\ last.did.state_key = key
                 /\ last.did.group = IF rejected THEN CustomName(1) ELSE "oxidizer"
                 /\ storage_groups.val[last.did.group][key] = <<last.compound>>
                 /\ Cardinality(Slots(storage_groups)) = 1

\* an Oxidizer compound without Flammable or Corrosive, placed first, now in oxidizer
C6_Witness ==
    /\ FirstOnFresh
    /\ Dominant(last.compound) = "Oxidizer"
    /\ ~ InList("Corrosive", last.compound.sorted_pictograms)
    /\ last.did.group = "oxidizer"
    /\ storage_groups.val["oxidizer"]["solid"] = <<last.compound>>

(***************************************************************************)
(* C7.  Every overflow group is created under the name custom_storage_N    *)
(* with N the smallest positive integer whose name the registry does not   *)
(* hold; N is larger than the suffix of every overflow group already       *)
(* there; no group already there is replaced or loses a compound; also in  *)
(* a call on a registry that holds overflow groups of an earlier call.     *)
(***************************************************************************)
CustomSuffixes(group_dict) ==
    {n \in 1..(MaxCompounds + 2) : CustomName(n) \in DOMAIN group_dict.val}

SmallestFree(group_dict) ==
    CHOOSE n \in 1..(MaxCompounds + 2) :
        /\ n \notin CustomSuffixes(group_dict)
        /\ \A m \in 1..(n - 1) : m \in CustomSuffixes(group_dict)

IsPrefix(s, t) == Len(s) <= Len(t) /\ SubSeq(t, 1, Len(s)) = s

C7_OverflowNaming ==
    [][ /\ \A g \in DOMAIN storage_groups.val :
              /\ g \in DOMAIN storage_groups'.val
              /\ DOMAIN storage_groups'.val[g] = DOMAIN storage_groups.val[g]
              /\ \A k \in DOMAIN storage_groups.val[g] :
                    IsPrefix(storage_groups.val[g][k], storage_groups'.val[g][k])
        /\ DOMAIN storage_groups'.val # DOMAIN storage_groups.val =>
              LET n == SmallestFree(storage_groups)
              IN  /\ DOMAIN storage_groups'.val = DOMAIN storage_groups.val \cup {CustomName(n)}
                  /\ storage_groups'.keys = Append(storage_groups.keys, CustomName(n))
                  /\ \A m \in CustomSuffixes(storage_groups) : m < n
      ]_vars

\* a second call, on a registry that already held custom_storage_1, has created custom_storage_2
C7_Witness ==
    /\ calls = 2
    /\ CustomName(1) \in DOMAIN entry_groups.val
    /\ last.did.via = "new"
    /\ last.did.group = CustomName(2)
    /\ CustomGroupsOf(storage_groups) = <<CustomName(1), CustomName(2)>>

(***************************************************************************)
(* C8.  Against the empty placeholder is_chemically_compatible is decided  *)
(* by rule 5 alone, and for a group name without an override keyword it is *)
(* true for every candidate.                                               *)
(***************************************************************************)
NoOverrideKeyword(group_name) ==
    LET name == Lower(Chars(group_name))
    IN  /\ name \notin {Chars("oxidizer"), Chars("flammable"), Chars("pyrophoric"), Chars("cmr_stot")}
        /\ \A word \in {"corrosive", "irritant", "toxicity", "acid"} :
              ~ IsSubstring(Chars(word), name)

C8_EmptyBucketOnlyRule5 ==
    (fn_pc = "returned" /\ fn_args.existing = EmptyProfile) =>
        /\ fn_ret = Rule5(fn_args.candidate.sorted_pictograms,
                          fn_args.candidate.acid_base_class, fn_args.group_name)
        /\ NoOverrideKeyword(fn_args.group_name) => fn_ret = TRUE

\* an acid candidate with clashing pictograms accepted by an empty overflow bucket
C8_Witness ==
    /\ fn_pc = "returned"
    /\ fn_args.existing = EmptyProfile
    /\ fn_args.group_name = CustomName(1)
    /\ fn_args.candidate = Profile(<<"Flammable", "Corrosive">>, PyStr("acid"), "liquid")
    /\ fn_ret = TRUE

(***************************************************************************)
(* C9.  With a solid compound in flammable, a liquid compound whose        *)
(* dominant pictogram is Flammable and that nothing else rejects is        *)
(* rejected from flammable by the state rule and goes to an overflow       *)
(* group, never to the solid bucket.                                       *)
(* As claimed it fails: the check reads only the bucket of the candidate's *)
(* state key, so the state rule never meets the solid occupant.  Amended:  *)
(* the compound is appended to the liquid bucket of flammable; the solid   *)
(* bucket and every other group stay as they were and no overflow group is *)
(* made (a record with a tuple class raises instead: C3).                  *)
(***************************************************************************)
\* the claim's case: what the next loop iteration is about to handle
C9_Case ==
    /\ pc = "loop"
    /\ idx <= Len(compounds)
    /\ storage_groups.val["flammable"]["solid"] # <<>>
    /\ LET compound == compounds[idx]
       IN  /\ Dominant(compound) = "Flammable"
           /\ compound.state_room_temp = "liquid"
           /\ ~ IsNitricAcid(compound)
           /\ ~ AnyPhrase(phrases_flam, AllStatements(compound))
           /\ ~ InList("Oxidizer", compound.sorted_pictograms)
           /\ ~ InList("Corrosive", compound.sorted_pictograms)
           /\ \A n \in 1..Len(storage_groups.val["flammable"]["liquid"]) :
                 LET existing == storage_groups.val["flammable"]["liquid"][n]
                 IN  /\ Rule1(existing.acid_base_class, compound.acid_base_class)
                     /\ Rule2(existing.sorted_pictograms, compound.sorted_pictograms)
                     /\ Rule3(existing.sorted_pictograms, compound.sorted_pictograms,
                              existing.acid_base_class, compound.acid_base_class)

C9_LiquidGoesToOverflow ==
    [][ C9_Case =>
          /\ last'.did.exc = ""
          /\ StartsWith(Chars(last'.did.group), Chars(custom_group_prefix))
          /\ storage_groups'.val["flammable"] = storage_groups.val["flammable"]
      ]_vars

C9_LiquidGoesToLiquidBucket ==
    [][ C9_Case =>
          IF compounds[idx].acid_base_class.tuple
          THEN pc' = "raised" /\ storage_groups' = storage_groups
          ELSE /\ last'.did.exc = ""
               /\ last'.did.group = "flammable"
               /\ last'.did.state_key = "liquid"
               /\ storage_groups' =
                     [storage_groups EXCEPT !.val["flammable"]["liquid"] = Append(@, compounds[idx])]
      ]_vars

\* a liquid Flammable compound was just appended to flammable/liquid next to a solid occupant
C9_Witness ==
    /\ last.did.group = "flammable"
    /\ last.did.state_key = "liquid"
    /\ last.compound.state_room_temp = "liquid"
    /\ Dominant(last.compound) = "Flammable"
    /\ storage_groups.val["flammable"]["solid"] # <<>>
    /\ storage_groups.val["flammable"]["liquid"] = <<last.compound>>

(***************************************************************************)
(* C10.  prioritize_pictograms returns its input reordered by rank         *)
(* ascending, labels of equal rank in their input order; the empty list    *)
(* gives the empty list; [Irritant, Explosive, Corrosive] gives            *)
(* [Explosive, Corrosive, Irritant].                                       *)
(***************************************************************************)
\* the ranks as the claim lists them
ClaimedRank(label) ==
    CASE label \in {"Explosive", "Compressed Gas"} -> 1
      [] label = "Oxidizer" -> 2
      [] label = "Flammable" -> 3
      [] label = "Corrosive" -> 4
      [] label \in {"Health Hazard", "Acute Toxic"} -> 5
      [] label \in {"Irritant", "Environmental Hazard"} -> 6
      [] OTHER -> 99

OfRank(labels, rank) == SelectSeq(labels, LAMBDA label : ClaimedRank(label) = rank)

C10_StableByRank ==
    fn_pc = "returned" =>
        /\ Len(fn_ret) = Len(fn_args)
        /\ \A m, n \in 1..Len(fn_ret) : m < n => ClaimedRank(fn_ret[m]) <= ClaimedRank(fn_ret[n])
        /\ \A rank \in {1, 2, 3, 4, 5, 6, 99} : OfRank(fn_ret, rank) = OfRank(fn_args, rank)
        /\ fn_args = <<>> => fn_ret = <<>>
        /\ fn_args = <<"Irritant", "Explosive", "Corrosive">>
              => fn_ret = <<"Explosive", "Corrosive", "Irritant">>

\* the example of the claim
C10_Witness ==
    /\ fn_pc = "returned"
    /\ fn_args = <<"Irritant", "Explosive", "Corrosive">>
    /\ fn_ret = <<"Explosive", "Corrosive", "Irritant">>

(***************************************************************************)
(* C11.  is_chemically_compatible is true exactly when the five rules as   *)
(* the claim words them all pass: no acid tag against a base tag; no       *)
(* pictogram pair, in either order, among (Flammable, Oxidizer),           *)
(* (Flammable, Corrosive), (Corrosive, Oxidizer); no acid with Corrosive   *)
(* against Acute Toxic or Health Hazard; no solid against liquid; and the  *)
(* override of the lower-cased group name does not reject the candidate.   *)
(***************************************************************************)
\* the class carries the tag: the class itself, or one of the tags of a tuple
Tagged(tag, class) ==
    IF class.tuple THEN \E k \in 1..Len(class.items) : class.items[k] = tag
    ELSE class.str = tag

Has(side, pictogram) == pictogram \in Range(side.sorted_pictograms)

ClaimedClash == {{"Flammable", "Oxidizer"}, {"Flammable", "Corrosive"}, {"Corrosive", "Oxidizer"}}

ClaimedRule1(a, b) == ~ (Tagged("acid", a.acid_base_class) /\ Tagged("base", b.acid_base_class))

ClaimedRule2(a, b) ==
    \A p \in Range(a.sorted_pictograms) : \A q \in Range(b.sorted_pictograms) :
        {p, q} \notin ClaimedClash

ClaimedRule3(a, b) ==
    ~ ( /\ Tagged("acid", a.acid_base_class)
        /\ Has(a, "Corrosive")
        /\ (Has(b, "Acute Toxic") \/ Has(b, "Health Hazard")) )

ClaimedRule4(a, b) == ~ (a.state_room_temp = "solid" /\ b.state_room_temp = "liquid")

\* the group override, on the lower-cased group name
ClaimedRule5(candidate, group_name) ==
    LET name == Lower(Chars(group_name))
        contains(word) == IsSubstring(Chars(word), name)
    IN  /\ name = Chars("oxidizer")
            => ~ (Has(candidate, "Flammable") \/ Has(candidate, "Corrosive"))
        /\ name \in {Chars("flammable"), Chars("pyrophoric")}
            => ~ (Has(candidate, "Oxidizer") \/ Has(candidate, "Corrosive"))
        /\ (contains("corrosive") \/ contains("irritant"))
            => ~ (Has(candidate, "Oxidizer") \/ Has(candidate, "Flammable"))
        /\ (contains("toxicity") \/ name = Chars("cmr_stot"))
            => ~ Tagged("acid", candidate.acid_base_class)
        /\ contains("acid")
            => ~ (Has(candidate, "Health Hazard") \/ Has(candidate, "Acute Toxic"))

ClaimedCompatible(existing, candidate, group_name) ==
    /\ ClaimedRule1(existing, candidate) /\ ClaimedRule1(candidate, existing)
    /\ ClaimedRule2(existing, candidate)
    /\ ClaimedRule3(existing, candidate) /\ ClaimedRule3(candidate, existing)
    /\ ClaimedRule4(existing, candidate) /\ ClaimedRule4(candidate, existing)
    /\ ClaimedRule5(candidate, group_name)

C11_FiveRules ==
    fn_pc = "returned" =>
        fn_ret = ClaimedCompatible(fn_args.existing, fn_args.candidate, fn_args.group_name)

\* a Flammable candidate is rejected by the Corrosive occupant (pair in reverse order)
\* although the group, named in capitals, would only reject through its own override
C11_Witness ==
    /\ fn_pc = "returned"
    /\ fn_args.existing = Profile(<<"Corrosive">>, PyStr("acid"), "liquid")
    /\ fn_args.candidate = Profile(<<"Flammable">>, PyTuple(<<"acid", "basic">>), "liquid")
    /\ fn_args.group_name = "OXIDIZER"
    /\ fn_ret = FALSE

(***************************************************************************)
(* C12.  In app.py, after any sequence of Add Compound operations, every   *)
(* compound added with success occupies exactly one (group, state) slot of *)
(* the session's registry; a further Add never places a compound that is  *)
(* already sorted a second time.  Stated here in its weaker half, no       *)
(* compound of the session occupies two slots, which does not depend on    *)
(* the calls that raise (C3).  The handler passes the whole list           *)
(* processed_compounds to the registry that already holds its earlier      *)
(* elements, so each Add places every earlier compound once more.          *)
(***************************************************************************)
C12_NeverPlacedTwice ==
    program = "app" =>
        \A k \in 1..Len(processed_compounds) :
            Occurrences(processed_compounds[k], storage_groups) <= 1

(***************************************************************************)
(* C13.  A compound whose identity resolution fails (empty CID, or an      *)
(* exception during processing) never enters the sorter.  In app.py it is  *)
(* added neither to stored_compounds nor to processed_compounds and the    *)
(* registry is left as it was.  In Z_app_backup_first.py the claim says it *)
(* is skipped and the remaining compounds are still sorted: that holds for *)
(* an empty CID, but an exception is not caught there and ends             *)
(* process_compounds before anything is sorted.                            *)
(***************************************************************************)
\* the latest operation was an Add of app.py whose lookups failed
FailedAdd ==
    /\ program = "app"
    /\ app_last'.op = "add"
    /\ ~ InList(app_last'.name, stored_compounds)
    /\ app_last'.outcomes[1] \in {"no_cid", "exception"}

SessionUnchanged == UNCHANGED <<stored_compounds, processed_compounds, storage_groups>>

\* the latest operation was process_compounds; Failed and Found index stored_compounds
ProcessedNow == program = "backup" /\ app_last'.op = "processed"

FailedAt == {k \in 1..Len(stored_compounds) : app_last'.outcomes[k] # "found"}

FoundNames ==
    SelectSeq(stored_compounds,
              LAMBDA name : \E k \in 1..Len(stored_compounds) :
                                stored_compounds[k] = name /\ app_last'.outcomes[k] = "found")

\* the compounds that were found, and only they, are sorted into a fresh registry
FoundAreSorted ==
    /\ Len(processed_compounds') = Len(FoundNames)
    /\ \A k \in 1..Len(FoundNames) :
          /\ processed_compounds'[k].name = FoundNames[k]
          /\ Occurrences(processed_compounds'[k], storage_groups') = 1
    /\ Cardinality(Slots(storage_groups')) = Len(FoundNames)

\* the sorter accepts the compounds that were found (it does not raise on them, C3)
SorterAcceptsFound == app_error' \in {"", "Exception"}

\* the claim as stated, for the calls on which the sorter itself does not raise
C13_FailedIsSkipped ==
    [][ /\ FailedAdd => SessionUnchanged
        /\ (ProcessedNow /\ FailedAt # {} /\ FoundNames # <<>> /\ SorterAcceptsFound)
              => FoundAreSorted
      ]_vars

\* what the code does: in Z_app_backup_first.py only an empty CID is skipped
C13_FailedNeverEntersSorter ==
    [][ /\ FailedAdd => (SessionUnchanged /\ UNCHANGED cache)
        /\ ProcessedNow =>
              IF \E k \in FailedAt : app_last'.outcomes[k] = "exception"
              THEN SessionUnchanged /\ app_error' = "Exception"
              ELSE IF FoundNames = <<>> \/ app_error' # ""
              THEN SessionUnchanged
              ELSE FoundAreSorted
      ]_vars

\* process_compounds skipped a compound without CID and sorted the other one
C13_Witness ==
    /\ program = "backup"
    /\ app_last.op = "processed"
    /\ app_last.outcomes = <<"no_cid", "found">>
    /\ Len(processed_compounds) = 1
    /\ processed_compounds[1].name = stored_compounds[2]
    /\ Occurrences(processed_compounds[1], storage_groups) = 1
    /\ Cardinality(Slots(storage_groups)) = 1

(***************************************************************************)
(* C14.  For a non-empty bucket is_compatible_with_group accepts the       *)
(* candidate exactly when is_chemically_compatible holds between the       *)
(* candidate and every occupant taken on its own; one occupant that        *)
(* rejects is enough to reject the bucket.                                 *)
(***************************************************************************)
\* is_chemically_compatible between one occupant and the candidate
OccupantAccepts(existing, candidate, group_name) ==
    is_chemically_compatible(
        existing.sorted_pictograms, candidate.sorted_pictograms,
        existing.acid_base_class, candidate.acid_base_class,
        existing.state_room_temp, candidate.state_room_temp, group_name)

C14_EveryOccupant ==
    (fn_pc = "returned" /\ "bucket" \in DOMAIN fn_args) =>
        /\ fn_ret = \A k \in 1..Len(fn_args.bucket) :
                        OccupantAccepts(fn_args.bucket[k], fn_args.candidate, fn_args.group_name)
        /\ (\E k \in 1..Len(fn_args.bucket) :
                ~ OccupantAccepts(fn_args.bucket[k], fn_args.candidate, fn_args.group_name))
              => fn_ret = FALSE

\* the first occupant accepts the candidate, the second rejects it: the bucket rejects
C14_Witness ==
    /\ fn_pc = "returned"
    /\ "bucket" \in DOMAIN fn_args
    /\ Len(fn_args.bucket) = 2
    /\ OccupantAccepts(fn_args.bucket[1], fn_args.candidate, fn_args.group_name)
    /\ ~ OccupantAccepts(fn_args.bucket[2], fn_args.candidate, fn_args.group_name)
    /\ fn_ret = FALSE

(***************************************************************************)
(* C15.  Whenever a compound has no candidate group or its candidate group *)
(* rejects it, a compound without pictograms rejected from none included,  *)
(* the existing overflow groups are tried in creation order and the        *)
(* compound goes to the first one that accepts it; a new overflow group is *)
(* created only if none accepts.  The code tries the overflow groups only  *)
(* for a compound that has pictograms.                                     *)
(***************************************************************************)
\* an iteration of the loop has just placed compounds[idx]
Iterated == pc = "loop" /\ idx' = idx + 1

\* the positions in custom_groups of the overflow groups that accept compounds[idx]
Accepting ==
    {k \in 1..Len(custom_groups) :
        is_compatible_with_group(custom_groups[k], last'.did.state_key, compounds[idx],
                                 storage_groups)}

C15_OverflowTriedFirst ==
    [][ (Iterated /\ last'.did.via \in {"custom", "new"}) =>
            IF Accepting = {}
            THEN last'.did.via = "new"
            ELSE /\ last'.did.via = "custom"
                 /\ last'.did.group = custom_groups[CHOOSE k \in Accepting :
                                                       \A j \in Accepting : k <= j]
      ]_vars

(***************************************************************************)
(* C16.  The compounds are placed in non-decreasing order of the rank of   *)
(* their first pictogram, those without pictograms or with an unrecognised *)
(* first pictogram last, compounds of equal rank in input order; when a    *)
(* compound is checked the registry holds what it held at the call plus    *)
(* the compounds that precede it in this order, and nothing else.          *)
(***************************************************************************)
\* the place in the order: the claimed rank, the last place without a recognised pictogram
OrderRank(compound) ==
    IF compound.sorted_pictograms = <<>> THEN 7
    ELSE IF ClaimedRank(compound.sorted_pictograms[1]) = 99 THEN 7
    ELSE ClaimedRank(compound.sorted_pictograms[1])

WithRank(list, rank) == SelectSeq(list, LAMBDA c : OrderRank(c) = rank)

\* how many of the first n elements of the list are the compound
Before(compound, list, n) == Cardinality({k \in 1..n : list[k] = compound})

\* compounds is the input in the claimed order
InClaimedOrder ==
    /\ Len(compounds) = Len(input)
    /\ \A m, n \in 1..Len(compounds) :
          m < n => OrderRank(compounds[m]) <= OrderRank(compounds[n])
    /\ \A rank \in 1..7 : WithRank(compounds, rank) = WithRank(input, rank)

\* the registry holds its content at the call and the compounds before position idx
SeesPreceding ==
    /\ Cardinality(Slots(storage_groups)) = Cardinality(Slots(entry_groups)) + (idx - 1)
    /\ \A k \in 1..Len(compounds) :
          Occurrences(compounds[k], storage_groups)
              = Occurrences(compounds[k], entry_groups) + Before(compounds[k], compounds, idx - 1)

C16_GlobalOrdering ==
    /\ [](pc = "loop" => (InClaimedOrder /\ SeesPreceding))
    /\ [][Iterated => (last'.compound = compounds[idx] /\ compounds' = compounds)]_vars

\* three compounds out of order in the input, two of them of equal rank, all placed
C16_Witness ==
    /\ pc = "returned"
    /\ Len(input) = 3
    /\ input[1].sorted_pictograms = <<"Biohazard">>
    /\ input[2].sorted_pictograms = <<>>
    /\ Dominant(input[3]) = "Flammable"
    /\ compounds = <<input[3], input[1], input[2]>>
    /\ last.compound = input[2]

(***************************************************************************)
(* C17.  A compound whose dominant pictogram is Corrosive and whose name   *)
(* is not nitric acid has the candidate group base_corrosive_1 (base tag,  *)
(* severe), base_irritant (base tag, not severe), acid_corrosive_1 (acid   *)
(* tag, severe) or acid_irritant (acid tag, not severe); with neither tag  *)
(* it has no candidate group, is never placed in a fixed group and goes to *)
(* an overflow group.  A class that is a tuple of tags makes the loop      *)
(* raise (C3) before the branch is reached, so such a compound goes        *)
(* nowhere.                                                                *)
(***************************************************************************)
\* an iteration of the loop has just run on compounds[idx], placing it or raising
Ran == pc = "loop" /\ (idx' = idx + 1 \/ pc' = "raised")

CorrosiveCase(compound) == Dominant(compound) = "Corrosive" /\ ~ IsNitricAcid(compound)

IsSevere(compound) ==
    \E k \in 1..Len(compound.hazard_statements) :
        IsSubstring(Chars("causes severe skin burns and eye damage"),
                    Lower(Chars(compound.hazard_statements[k])))

\* the candidate group as the claim gives it, "" for none
ClaimedCorrosiveGroup(compound) ==
    IF Tagged("base", compound.acid_base_class)
    THEN (IF IsSevere(compound) THEN "base_corrosive_1" ELSE "base_irritant")
    ELSE IF Tagged("acid", compound.acid_base_class)
    THEN (IF IsSevere(compound) THEN "acid_corrosive_1" ELSE "acid_irritant")
    ELSE ""

InOverflow(did) == did.exc = "" /\ did.via \in {"custom", "new"}

C17_CorrosiveRouting ==
    [][ (Ran /\ CorrosiveCase(compounds[idx])) =>
            LET group == ClaimedCorrosiveGroup(compounds[idx])
                did == last'.did
            IN  IF group = "" THEN InOverflow(did)
                ELSE \/ did.exc = "" /\ did.via = "check" /\ did.group = group
                     \/ /\ InOverflow(did)
                        /\ ~ is_compatible_with_group(group, did.state_key, compounds[idx],
                                                      storage_groups)
      ]_vars

(***************************************************************************)
(* C18.  chemsort_multiple_order_3 only adds to the registry it is given:  *)
(* at every point of a call, every group the registry had when the call    *)
(* started is still there under its name and at its position, with the     *)
(* same state keys, and what each of its buckets held then is a prefix of  *)
(* what it holds now.  Overflow groups left by an earlier call can take    *)
(* further compounds.                                                      *)
(***************************************************************************)
Grown(before, after) ==
    /\ IsPrefix(before.keys, after.keys)
    /\ \A g \in DOMAIN before.val :
          /\ g \in DOMAIN after.val
          /\ DOMAIN after.val[g] = DOMAIN before.val[g]
          /\ \A k \in DOMAIN before.val[g] : IsPrefix(before.val[g][k], after.val[g][k])

C18_OnlyAdds == Grown(entry_groups, storage_groups)

\* a later call has returned after adding a compound behind the occupants of
\* an overflow group that an earlier call created
C18_Witness ==
    /\ pc = "returned"
    /\ calls = 2
    /\ \E g \in DOMAIN entry_groups.val \ Range(FixedGroups) :
          \E k \in DOMAIN entry_groups.val[g] :
              /\ entry_groups.val[g][k] # <<>>
              /\ Len(storage_groups.val[g][k]) > Len(entry_groups.val[g][k])

(***************************************************************************)
(* C19.  initialize_storage_groups returns exactly the 15 fixed groups,    *)
(* every bucket empty; each group has the three state buckets solid,       *)
(* liquid and gas, except compressed_gas which has only the gas bucket.    *)
(* The registry before the first call is what initialize_storage_groups    *)
(* returns.  In the code default_group has the keys solid and liquid only, *)
(* so 14 of the 15 groups have no gas bucket.                              *)
(***************************************************************************)
ClaimedFixedGroups ==
    {"none", "hazardous_environment", "acute_toxicity", "cmr_stot", "toxicity_2_3",
     "acid_corrosive_1", "acid_irritant", "base_corrosive_1", "base_irritant",
     "pyrophoric", "flammable", "oxidizer", "explosive", "compressed_gas", "nitric_acid"}

ClaimedStateKeys(g) == IF g = "compressed_gas" THEN {"gas"} ELSE {"solid", "liquid", "gas"}

C19_InitialRegistry ==
    pc = "idle" =>
        /\ DOMAIN storage_groups.val = ClaimedFixedGroups
        /\ Range(storage_groups.keys) = ClaimedFixedGroups
        /\ Len(storage_groups.keys) = 15
        /\ \A g \in DOMAIN storage_groups.val :
              /\ DOMAIN storage_groups.val[g] = ClaimedStateKeys(g)
              /\ \A k \in DOMAIN storage_groups.val[g] : storage_groups.val[g][k] = <<>>

(***************************************************************************)
(* C20.  Checked buckets stay pairwise compatible: starting from           *)
(* initialize_storage_groups, after any sequence of calls that all         *)
(* returned, in every bucket of every group other than nitric_acid,        *)
(* explosive and compressed_gas (overflow groups included), any two        *)
(* occupants pass rules 1 to 4 against each other and every occupant       *)
(* passes rule 5 for the name of its group.                                *)
(***************************************************************************)
\* no call is running and none has raised: every compound passed in so far is stored
AllReturned == pc \in {"idle", "returned"} /\ Cardinality(Slots(storage_groups)) = passed

PassEachOther(a, b) ==
    /\ ClaimedRule1(a, b) /\ ClaimedRule1(b, a)
    /\ ClaimedRule2(a, b)
    /\ ClaimedRule3(a, b) /\ ClaimedRule3(b, a)
    /\ ClaimedRule4(a, b) /\ ClaimedRule4(b, a)

CheckedBucketPasses(g, bucket) ==
    /\ \A m, n \in 1..Len(bucket) : m # n => PassEachOther(bucket[m], bucket[n])
    /\ \A n \in 1..Len(bucket) : ClaimedRule5(bucket[n], g)

C20_CheckedBucketsStayCompatible ==
    AllReturned =>
        \A g \in DOMAIN storage_groups.val \ UncheckedGroups :
            \A k \in DOMAIN storage_groups.val[g] :
                CheckedBucketPasses(g, storage_groups.val[g][k])

\* two calls have returned; the second added a different compound to a bucket of an
\* overflow group that the first call had filled
C20_Witness ==
    /\ AllReturned
    /\ calls = 2
    /\ \E g \in DOMAIN entry_groups.val \ Range(FixedGroups) :
          \E k \in DOMAIN entry_groups.val[g] :
              /\ Len(entry_groups.val[g][k]) = 1
              /\ Len(storage_groups.val[g][k]) = 2
              /\ storage_groups.val[g][k][1] # storage_groups.val[g][k][2]

(***************************************************************************)
(* C21.  State-key invariant: at every point of every call, every compound *)
(* stored in bucket (group, k) has state key k, the key being liquid if    *)
(* the state string contains "liquid", else solid if it contains "solid",  *)
(* else gas.  So no bucket holds a solid and a liquid, and whatever bucket *)
(* the compound of the running iteration is offered to, rule 4 rejects it  *)
(* against no occupant and not against the placeholder of an empty bucket. *)
(***************************************************************************)
ClaimedStateKey(state) ==
    CASE IsSubstring(Chars("liquid"), Chars(state)) -> "liquid"
      [] ~ IsSubstring(Chars("liquid"), Chars(state)) /\ IsSubstring(Chars("solid"), Chars(state)) -> "solid"
      [] OTHER -> "gas"

\* the placeholder is_compatible_with_group passes for an empty bucket
NoOccupant == [state_room_temp |-> ""]

Rule4Accepts(candidate, group_dict) ==
    \A g \in DOMAIN group_dict.val :
        ClaimedStateKey(candidate.state_room_temp) \in DOMAIN group_dict.val[g] =>
            LET bucket == group_dict.val[g][ClaimedStateKey(candidate.state_room_temp)]
            IN  /\ ClaimedRule4(NoOccupant, candidate) /\ ClaimedRule4(candidate, NoOccupant)
                /\ \A n \in 1..Len(bucket) :
                      ClaimedRule4(bucket[n], candidate) /\ ClaimedRule4(candidate, bucket[n])

C21_StateKeyInvariant ==
    /\ \A slot \in Slots(storage_groups) :
          slot[2] = ClaimedStateKey(At(storage_groups, slot).state_room_temp)
    /\ \A g \in DOMAIN storage_groups.val : \A k \in DOMAIN storage_groups.val[g] :
          \A m, n \in 1..Len(storage_groups.val[g][k]) :
              ~ ( /\ storage_groups.val[g][k][m].state_room_temp = "solid"
                  /\ storage_groups.val[g][k][n].state_room_temp = "liquid" )
    /\ (pc = "loop" /\ idx <= Len(compounds)) => Rule4Accepts(compounds[idx], storage_groups)

\* a solid is about to be offered to a registry that holds a liquid and, in a gas
\* bucket, a compound of unknown state
C21_Witness ==
    /\ pc = "loop"
    /\ idx <= Len(compounds)
    /\ compounds[idx].state_room_temp = "solid"
    /\ \E s1, s2 \in Slots(storage_groups) :
          /\ s1[2] = "liquid"
          /\ s2[2] = "gas" /\ At(storage_groups, s2).state_room_temp = "unknown"

(***************************************************************************)
(* C22.  Overflow creation condition: the empty state bucket of an         *)
(* overflow group accepts every compound (no override keyword occurs in    *)
(* custom_storage_N), so when an iteration creates a new overflow group    *)
(* for a compound that has pictograms, every overflow group of the         *)
(* registry already has, in the bucket of the compound's state key, an     *)
(* occupant that rejects the compound by rules 1 to 4.                     *)
(* Buckets only grow (C18), so the empty buckets of an overflow group are  *)
(* among those it has when it is created: they are looked at there.        *)
(***************************************************************************)
OverflowGroups(group_dict) ==
    {g \in DOMAIN group_dict.val : StartsWith(Chars(g), Chars("custom_storage_"))}

RejectsByRules1to4(occupant, candidate) == ~ PassEachOther(occupant, candidate)

EmptyOverflowBucketAccepts ==
    \A g \in OverflowGroups(storage_groups') \ OverflowGroups(storage_groups) :
        \A k \in DOMAIN storage_groups'.val[g] :
            storage_groups'.val[g][k] = <<>> =>
                \A candidate \in Catalogue :
                    is_compatible_with_group(g, k, candidate, storage_groups')

CreatedOnlyWhenAllReject ==
    (Iterated /\ last'.did.via = "new" /\ compounds[idx].sorted_pictograms # <<>>) =>
        \A g \in OverflowGroups(storage_groups) :
            \E n \in 1..Len(storage_groups.val[g][last'.did.state_key]) :
                RejectsByRules1to4(storage_groups.val[g][last'.did.state_key][n],
                                   compounds[idx])

C22_OverflowCreation == [][EmptyOverflowBucketAccepts /\ CreatedOnlyWhenAllReject]_vars

\* a compound with pictograms has just opened custom_storage_2 while custom_storage_1
\* was there, with an empty bucket under another state key
C22_Witness ==
    /\ last.did.via = "new"
    /\ last.did.group = CustomName(2)
    /\ last.compound.sorted_pictograms # <<>>
    /\ CustomName(1) \in DOMAIN storage_groups.val
    /\ \E k \in DOMAIN storage_groups.val[CustomName(1)] :
          storage_groups.val[CustomName(1)][k] = <<>>

(***************************************************************************)
(* C23.  With an empty group name is_chemically_compatible is symmetric:   *)
(* the call with the existing and the new compound swapped (pictograms,    *)
(* class and state together) gives the same result.                        *)
(***************************************************************************)
Swapped(args) ==
    is_chemically_compatible(
        args.candidate.sorted_pictograms, args.existing.sorted_pictograms,
        args.candidate.acid_base_class, args.existing.acid_base_class,
        args.candidate.state_room_temp, args.existing.state_room_temp,
        args.group_name)

C23_Symmetric ==
    (fn_pc = "returned" /\ fn_args.group_name = "") => fn_ret = Swapped(fn_args)

\* an acid Corrosive occupant rejects an Acute Toxic newcomer; swapped, the other
\* half of rule 3 has to reject
C23_Witness ==
    /\ fn_pc = "returned"
    /\ fn_args.group_name = ""
    /\ fn_args.existing = Profile(<<"Corrosive">>, PyStr("acid"), "liquid")
    /\ fn_args.candidate = Profile(<<"Acute Toxic">>, PyStr("unknown"), "liquid")
    /\ fn_ret = FALSE

(***************************************************************************)
(* C24.  The structure-derived tag "basic" is not treated as base.  As     *)
(* claimed: a compound whose class carries "basic" but not "base" is not   *)
(* rejected by rule 1 against an acid-tagged compound, and with dominant   *)
(* pictogram Corrosive and no acid tag it gets no candidate group.  The    *)
(* first half fails when the compound also carries "acid" and the other    *)
(* compound also carries "base": rule 1 then rejects on those two tags.    *)
(* Rule 1 rejects a class that carries "basic" but not "base" exactly in   *)
(* that case; the second half holds.                                       *)
(***************************************************************************)
BasicNotBase(class) == Tagged("basic", class) /\ ~ Tagged("base", class)

\* the iteration offered the compound to no fixed group: it raised or opened an overflow group
NoCandidateGroup(did) == did.exc # "" \/ did.via = "new"

CorrosiveBasicHasNoCandidate ==
    (fn_pc = "loop body" /\ BasicNotBase(fn_args.class) /\ ~ Tagged("acid", fn_args.class)) =>
        NoCandidateGroup(fn_ret)

C24_BasicNeverRejected ==
    /\ (fn_pc = "rule 1" /\ BasicNotBase(fn_args.class) /\ Tagged("acid", fn_args.other)) =>
          fn_ret = TRUE
    /\ CorrosiveBasicHasNoCandidate

C24_BasicIsNotBase ==
    /\ (fn_pc = "rule 1" /\ BasicNotBase(fn_args.class) /\ Tagged("acid", fn_args.other)) =>
          fn_ret = ~ (Tagged("acid", fn_args.class) /\ Tagged("base", fn_args.other))
    /\ CorrosiveBasicHasNoCandidate

\* rule 1 has let a compound tagged only "basic" pass against a compound tagged only "acid"
C24_Witness ==
    /\ fn_pc = "rule 1"
    /\ fn_args.class = PyTuple(<<"basic">>)
    /\ fn_args.other = PyTuple(<<"acid">>)
    /\ fn_ret = TRUE

(***************************************************************************)
(* C25.  In app.py, after any sequence of Add, Delete and Clear All,       *)
(* stored_compounds contains no name twice and the names of                *)
(* processed_compounds are exactly stored_compounds, in the same order.    *)
(***************************************************************************)
NoDuplicate(list) == \A m, n \in 1..Len(list) : list[m] = list[n] => m = n

C25_StoredMatchesProcessed ==
    program = "app" =>
        /\ NoDuplicate(stored_compounds)
        /\ Len(processed_compounds) = Len(stored_compounds)
        /\ \A k \in 1..Len(stored_compounds) : processed_compounds[k].name = stored_compounds[k]

\* three compounds were added and one of them was deleted again
C25_Witness ==
    /\ program = "app"
    /\ app_last.op = "deleted"
    /\ ops = 4
    /\ Len(stored_compounds) = 2
    /\ Len(processed_compounds) = 2

(***************************************************************************)
(* C26.  In app.py, deleting a compound removes it from stored_compounds,  *)
(* processed_compounds and the cache but leaves storage_groups as it was,  *)
(* so the deleted compound stays in its bucket of the registry; only Clear *)
(* All takes a registry that holds something back to what                  *)
(* initialize_storage_groups returns.                                      *)
(***************************************************************************)
Deleted == program = "app" /\ ops' = ops + 1 /\ app_last'.op = "deleted"

StoredByName(name, group_dict) ==
    {slot \in Slots(group_dict) : At(group_dict, slot).name = name}

C26_DeleteLeavesRegistry ==
    [][ /\ Deleted =>
              /\ InList(app_last'.name, stored_compounds)
              /\ ~ InList(app_last'.name, stored_compounds')
              /\ \A k \in 1..Len(processed_compounds') :
                    processed_compounds'[k].name # app_last'.name
              /\ app_last'.name \notin DOMAIN cache'
              /\ storage_groups' = storage_groups
              /\ StoredByName(app_last'.name, storage_groups')
                    = StoredByName(app_last'.name, storage_groups)
        /\ ( /\ program = "app"
             /\ storage_groups # initialize_storage_groups
             /\ storage_groups' = initialize_storage_groups ) => app_last'.op = "cleared"
      ]_vars

\* a compound that was sorted has been deleted: it is on no list and still in its bucket
C26_Witness ==
    /\ program = "app"
    /\ app_last.op = "deleted"
    /\ ~ InList(app_last.name, stored_compounds)
    /\ StoredByName(app_last.name, storage_groups) # {}

(***************************************************************************)
(* C27.  In Z_app_backup_first.py process_compounds sorts into a freshly   *)
(* initialised registry each time: after a Process Compounds that          *)
(* succeeded the registry of the session holds exactly the resolved        *)
(* compounds of the current stored list, each once, whatever it held       *)
(* before, and processing the same list again with the same lookups leaves *)
(* processed_compounds and the registry as they are; when no compound      *)
(* resolves, processed_compounds and storage_groups are left unchanged.    *)
(***************************************************************************)
Succeeded == ProcessedNow /\ app_error' = "" /\ FoundNames # <<>>

NoneResolved == ProcessedNow /\ FoundNames = <<>>

\* the step before was a successful processing of the same list with the same lookups
SameAsBefore ==
    /\ app_last.op = "processed"
    /\ app_error = ""
    /\ app_last.outcomes = app_last'.outcomes

HoldsExactlyResolved ==
    /\ FoundAreSorted
    /\ \A slot \in Slots(storage_groups') :
          \E k \in 1..Len(FoundNames) : At(storage_groups', slot).name = FoundNames[k]
    /\ \A k \in 1..Len(FoundNames) :
          Cardinality(StoredByName(FoundNames[k], storage_groups')) = 1

C27_FreshRegistryEachTime ==
    [][ /\ Succeeded => HoldsExactlyResolved
        /\ (Succeeded /\ SameAsBefore) =>
              UNCHANGED <<processed_compounds, storage_groups>>
        /\ NoneResolved => UNCHANGED <<processed_compounds, storage_groups>>
      ]_vars

\* after four operations a processing has succeeded in which the first of the two
\* listed compounds did not resolve: the registry holds the second one and nothing else
C27_Witness ==
    /\ program = "backup"
    /\ app_last.op = "processed"
    /\ app_last.outcomes = <<"no_cid", "found">>
    /\ app_error = ""
    /\ ops = MaxOps
    /\ Len(processed_compounds) = 1
    /\ processed_compounds[1].name = stored_compounds[2]
    /\ Cardinality(Slots(storage_groups)) = 1

====
